---------------------------- MODULE Spec2Model ----------------------------
(***************************************************************************)
(* A model of the instruction pipeline of AIPoliDoc:                       *)
(*   AIConnector: validate_config, send_request, parse_response            *)
(*                                (src/src/core/ai_connector.py)           *)
(*   DocProcessor: read_document, apply_formatting                         *)
(*                                (src/src/core/doc_processor.py)          *)
(*   FontManager: construction, enumeration, alias table, resolution       *)
(*                                (src/src/utils/font_manager.py)          *)
(*                                                                         *)
(* Text is a sequence of one-character strings.  TLA+ strings are ASCII,   *)
(* so the Chinese literals of the source are written in pinyin:            *)
(*   "正文" (body) is ZhengWen, "标题" (title) is BiaoTi,                  *)
(*   "宋体" is zh_SongTi, "黑体" is zh_HeiTi, "微软雅黑" is                *)
(*   zh_WeiRuanYaHei, and so on for the other font labels.                 *)
(* Numbers (JSON numbers, points) are kept in tenths: 1.5 is 15.           *)
(***************************************************************************)
EXTENDS Integers, Sequences, FiniteSets, TLC

VARIABLES
    content,        \* parse_response: the model's text (message content)
    parseResult,    \* parse_response: the (success, value) pair returned
    document,       \* DocProcessor.document: the file it was loaded from, or NoPath
    input_file,     \* DocProcessor.input_file
    output_file,    \* DocProcessor.output_file
    paragraphs_text,\* DocProcessor.paragraphs_text
    readResult,     \* the last read_document call: what it returned
    request,        \* the arguments of the apply_formatting calls of this run
    applyResult,    \* the last apply_formatting call: what it returned and did
    written,        \* the files saved so far: records [path, doc]
    system_fonts,   \* FontManager.system_fonts: the installed-font inventory
    font_mapping,   \* FontManager.font_mapping: label -> canonical name
    fontQuery,      \* the arguments of the font queries of this run
    fontResult,     \* the last FontManager call: its arguments and what it returned
    reverse_mapping,\* FontManager.reverse_mapping: canonical name -> label
    mapping_order,  \* the insertion order of the keys of FontManager.font_mapping
    mapping_file,   \* the file config/font_mapping.json
    manager,        \* FontManager._instance and _initialized, and the calls made
    host,           \* what the font enumerations of this machine answer
    api_config,     \* AIConnector: api_url, api_key and model
    callResult      \* the last validate_config or send_request: its pair

parseVars == <<content, parseResult, api_config, callResult>>
docVars == <<document, input_file, output_file, paragraphs_text, readResult, request,
             applyResult, written>>
managerVars == <<reverse_mapping, mapping_order, mapping_file, manager, host>>
fontVars == <<system_fonts, font_mapping, fontQuery, fontResult, managerVars>>
vars == <<parseVars, docVars, fontVars>>

(***************************************************************************)
(* Bounds of the model.                                                    *)
(***************************************************************************)
\* longest list of elements in an enumerated instruction set
MaxElems == 2
\* largest installed-font inventory enumerated
MaxFonts == 2

(***************************************************************************)
(* JSON values, as json.loads returns them.  Every value is a record of    *)
(* the same four fields: k is the Python type, n a number in tenths (or    *)
(* 0/1 for a bool), s the characters of a string, items the members of a   *)
(* list (values) or of a dict (key/value pairs, keys distinct, in          *)
(* insertion order).                                                       *)
(***************************************************************************)
JNull == [k |-> "null", n |-> 0, s |-> <<>>, items |-> <<>>]
JBool(b) == [k |-> "bool", n |-> IF b THEN 1 ELSE 0, s |-> <<>>, items |-> <<>>]
JNum(tenths) == [k |-> "num", n |-> tenths, s |-> <<>>, items |-> <<>>]
JStr(chars) == [k |-> "str", n |-> 0, s |-> chars, items |-> <<>>]
JList(vals) == [k |-> "list", n |-> 0, s |-> <<>>, items |-> vals]
JDict(pairs) == [k |-> "dict", n |-> 0, s |-> <<>>, items |-> pairs]
Pair(key, val) == [key |-> key, val |-> val]

\* key in d
HasKey(d, key) == \E i \in 1..Len(d.items) : d.items[i].key = key

\* d.get(key, default)
Get(d, key, default) ==
    IF HasKey(d, key)
    THEN d.items[CHOOSE i \in 1..Len(d.items) : d.items[i].key = key].val
    ELSE default

\* d[key] = val : a repeated key keeps its place and takes the new value
Put(pairs, key, val) ==
    IF \E i \in 1..Len(pairs) : pairs[i].key = key
    THEN [i \in 1..Len(pairs) |->
            IF pairs[i].key = key THEN Pair(key, val) ELSE pairs[i]]
    ELSE Append(pairs, Pair(key, val))

(***************************************************************************)
(* The strings the code looks up or compares with.                         *)
(***************************************************************************)
K_elements == <<"e", "l", "e", "m", "e", "n", "t", "s">>
K_content == <<"c", "o", "n", "t", "e", "n", "t">>
K_format == <<"f", "o", "r", "m", "a", "t">>
K_type == <<"t", "y", "p", "e">>
K_font == <<"f", "o", "n", "t">>
K_size == <<"s", "i", "z", "e">>
K_bold == <<"b", "o", "l", "d">>
K_italic == <<"i", "t", "a", "l", "i", "c">>
K_underline == <<"u", "n", "d", "e", "r", "l", "i", "n", "e">>
K_line_spacing == <<"l", "i", "n", "e", "_", "s", "p", "a", "c", "i", "n", "g">>
K_alignment == <<"a", "l", "i", "g", "n", "m", "e", "n", "t">>
K_first_line_indent ==
    <<"f", "i", "r", "s", "t", "_", "l", "i", "n", "e", "_", "i", "n", "d", "e", "n", "t">>
K_before_spacing ==
    <<"b", "e", "f", "o", "r", "e", "_", "s", "p", "a", "c", "i", "n", "g">>
K_after_spacing ==
    <<"a", "f", "t", "e", "r", "_", "s", "p", "a", "c", "i", "n", "g">>
S_center == <<"c", "e", "n", "t", "e", "r">>
S_right == <<"r", "i", "g", "h", "t">>
S_justify == <<"j", "u", "s", "t", "i", "f", "y">>
S_left == <<"l", "e", "f", "t">>
\* "正文", the body role
S_ZhengWen == <<"Z", "W">>
\* "标题", the title role
S_BiaoTi == <<"B", "T">>

(***************************************************************************)
(* json.loads, on texts of this alphabet: objects, arrays, strings without *)
(* escapes, the literals null/true/false, and unsigned numbers with at     *)
(* most one fractional digit.  Each parser takes the text and the index    *)
(* it starts at and returns [ok, val, pos], pos being the index after the  *)
(* value.                                                                  *)
(***************************************************************************)
Whitespace == {" "}
Digits == {"0", "1", "2", "3", "4", "5", "6", "7", "8", "9"}
DigitVal(c) ==
    CASE c = "0" -> 0 [] c = "1" -> 1 [] c = "2" -> 2 [] c = "3" -> 3
      [] c = "4" -> 4 [] c = "5" -> 5 [] c = "6" -> 6 [] c = "7" -> 7
      [] c = "8" -> 8 [] c = "9" -> 9

Lit_null == <<"n", "u", "l", "l">>
Lit_true == <<"t", "r", "u", "e">>
Lit_false == <<"f", "a", "l", "s", "e">>

DecodeFail(i) == [ok |-> FALSE, val |-> JNull, pos |-> i]
DecodeOk(v, i) == [ok |-> TRUE, val |-> v, pos |-> i]

RECURSIVE SkipWs(_, _)
SkipWs(s, i) ==
    IF i <= Len(s) /\ s[i] \in Whitespace THEN SkipWs(s, i + 1) ELSE i

\* the index of the next '"' at or after i, 0 when there is none
RECURSIVE FindQuote(_, _)
FindQuote(s, i) ==
    IF i > Len(s) THEN 0
    ELSE IF s[i] = "\"" THEN i
    ELSE FindQuote(s, i + 1)

StartsWithAt(s, i, lit) ==
    /\ i + Len(lit) - 1 <= Len(s)
    /\ SubSeq(s, i, i + Len(lit) - 1) = lit

\* the digits from i on: [n |-> their value, pos |-> the index after them]
RECURSIVE ScanDigits(_, _, _)
ScanDigits(s, i, acc) ==
    IF i <= Len(s) /\ s[i] \in Digits
    THEN ScanDigits(s, i + 1, 10 * acc + DigitVal(s[i]))
    ELSE [n |-> acc, pos |-> i]

\* a number starting at the digit s[i]: "0" or a digit 1-9 and more digits,
\* then an optional "." and one digit
ParseNumber(s, i) ==
    LET int == IF s[i] = "0" THEN [n |-> 0, pos |-> i + 1]
               ELSE ScanDigits(s, i, 0)
        p == int.pos
    IN  IF p + 1 <= Len(s) /\ s[p] = "." /\ s[p + 1] \in Digits
        THEN DecodeOk(JNum(10 * int.n + DigitVal(s[p + 1])), p + 2)
        ELSE DecodeOk(JNum(10 * int.n), p)

RECURSIVE ParseValue(_, _)
RECURSIVE ParseMembers(_, _, _)
RECURSIVE ParseItems(_, _, _)

\* the members of an object, j being where a key's opening quote must be
ParseMembers(s, j, acc) ==
    IF j > Len(s) \/ s[j] # "\"" THEN DecodeFail(j)
    ELSE LET q == FindQuote(s, j + 1) IN
    IF q = 0 THEN DecodeFail(j)
    ELSE LET key == SubSeq(s, j + 1, q - 1)
             c == SkipWs(s, q + 1) IN
    IF c > Len(s) \/ s[c] # ":" THEN DecodeFail(c)
    ELSE LET v == ParseValue(s, SkipWs(s, c + 1)) IN
    IF ~v.ok THEN v
    ELSE LET e == SkipWs(s, v.pos)
             got == Put(acc, key, v.val) IN
    IF e > Len(s) THEN DecodeFail(e)
    ELSE IF s[e] = "}" THEN DecodeOk(JDict(got), e + 1)
    ELSE IF s[e] = "," THEN ParseMembers(s, SkipWs(s, e + 1), got)
    ELSE DecodeFail(e)

\* the items of an array, j being where an item must start
ParseItems(s, j, acc) ==
    LET v == ParseValue(s, j) IN
    IF ~v.ok THEN v
    ELSE LET e == SkipWs(s, v.pos)
             got == Append(acc, v.val) IN
    IF e > Len(s) THEN DecodeFail(e)
    ELSE IF s[e] = "]" THEN DecodeOk(JList(got), e + 1)
    ELSE IF s[e] = "," THEN ParseItems(s, SkipWs(s, e + 1), got)
    ELSE DecodeFail(e)

ParseValue(s, i) ==
    IF i > Len(s) THEN DecodeFail(i)
    ELSE IF s[i] = "\"" THEN
        LET q == FindQuote(s, i + 1) IN
        IF q = 0 THEN DecodeFail(i)
        ELSE DecodeOk(JStr(SubSeq(s, i + 1, q - 1)), q + 1)
    ELSE IF s[i] = "{" THEN
        LET j == SkipWs(s, i + 1) IN
        IF j <= Len(s) /\ s[j] = "}" THEN DecodeOk(JDict(<<>>), j + 1)
        ELSE ParseMembers(s, j, <<>>)
    ELSE IF s[i] = "[" THEN
        LET j == SkipWs(s, i + 1) IN
        IF j <= Len(s) /\ s[j] = "]" THEN DecodeOk(JList(<<>>), j + 1)
        ELSE ParseItems(s, j, <<>>)
    ELSE IF StartsWithAt(s, i, Lit_null) THEN DecodeOk(JNull, i + 4)
    ELSE IF StartsWithAt(s, i, Lit_true) THEN DecodeOk(JBool(TRUE), i + 4)
    ELSE IF StartsWithAt(s, i, Lit_false) THEN DecodeOk(JBool(FALSE), i + 5)
    ELSE IF s[i] \in Digits THEN ParseNumber(s, i)
    ELSE DecodeFail(i)

\* json.loads(s): one value, whitespace around it, and nothing after it
JsonLoads(s) ==
    LET v == ParseValue(s, SkipWs(s, 1)) IN
    IF v.ok /\ SkipWs(s, v.pos) = Len(s) + 1 THEN v
    ELSE DecodeFail(0)

(***************************************************************************)
(* AIConnector.parse_response.  The pair it returns is the record          *)
(* [ok, kind, index, field, span, value]: kind names the message of a      *)
(* failure, index and field the element and key the message names, span    *)
(* the text the message quotes, value the instruction set of a success.    *)
(***************************************************************************)
\* the index of a message that names no element
NoIndex == 0 - 1

\* json_content[:100], the part of the span the decode error quotes
DiagLimit == 100

ParseFailure(kind, index, field, span) ==
    [ok |-> FALSE, kind |-> kind, index |-> index, field |-> field,
     span |-> span, value |-> JNull]
ParseSuccess(value) ==
    [ok |-> TRUE, kind |-> "Success", index |-> NoIndex, field |-> "",
     span |-> <<>>, value |-> value]

\* content.find(ch): the first index of ch, 0 when absent (Python's -1)
RECURSIVE FindFrom(_, _, _)
FindFrom(s, ch, i) ==
    IF i > Len(s) THEN 0
    ELSE IF s[i] = ch THEN i
    ELSE FindFrom(s, ch, i + 1)
Find(s, ch) == FindFrom(s, ch, 1)

\* content.rfind(ch): the last index of ch, 0 when absent
RECURSIVE RFindFrom(_, _, _)
RFindFrom(s, ch, i) ==
    IF i < 1 THEN 0
    ELSE IF s[i] = ch THEN i
    ELSE RFindFrom(s, ch, i - 1)
RFind(s, ch) == RFindFrom(s, ch, Len(s))

\* mutant of Take: the span is quoted whole
Take_Whole(s, n) == s

\* s[:n]
Take(s, n) == SubSeq(s, 1, IF Len(s) < n THEN Len(s) ELSE n)

\* len(x) is defined for str, list and dict
HasLen(v) == v.k \in {"str", "list", "dict"}

\* the loop over the elements, from element i (1-based here; the message
\* carries the 0-based index i - 1)
RECURSIVE CheckElements(_, _, _)
CheckElements(instructions, elements, i) ==
    IF i > Len(elements) THEN ParseSuccess(instructions)
    ELSE LET elem == elements[i] IN
    IF elem.k # "dict"
    THEN ParseFailure("ElementWrongType", i - 1, "", <<>>)
    ELSE IF ~HasKey(elem, K_content)
    THEN ParseFailure("MissingField", i - 1, "content", <<>>)
    ELSE IF ~HasKey(elem, K_format)
    THEN ParseFailure("MissingField", i - 1, "format", <<>>)
    ELSE CheckElements(instructions, elements, i + 1)

\* the checks on the decoded payload (the span starts with '{', so what
\* decodes from it is a dict)
ValidateInstructions(instructions) ==
    LET elements == Get(instructions, K_elements, JList(<<>>)) IN
    IF ~HasLen(elements)
    THEN ParseFailure("Exception", NoIndex, "", <<>>)
    ELSE IF elements.k # "list"
    THEN ParseFailure("WrongShape", NoIndex, "", <<>>)
    ELSE CheckElements(instructions, elements.items, 1)

\* mutant of BothFound: one brace is enough
BothFound_Either(json_start, json_end) == json_start # 0 \/ json_end # 0

\* json_start >= 0 and json_end >= 0
BothFound(json_start, json_end) == json_start # 0 /\ json_end # 0

\* mutant of Slice: the slice starts at the start of the text
Slice_FromStart(text, json_start, json_end) == SubSeq(text, 1, json_end)

\* content[json_start:json_end+1], empty when json_end < json_start
Slice(text, json_start, json_end) == SubSeq(text, json_start, json_end)

ParseResponse(text) ==
    IF text = <<>> THEN ParseFailure("EmptyContent", NoIndex, "", <<>>)
    ELSE LET json_start == Find(text, "{")
             json_end == RFind(text, "}") IN
    IF BothFound(json_start, json_end)
    THEN LET json_content == Slice(text, json_start, json_end)
             decoded == JsonLoads(json_content) IN
         IF decoded.ok
         THEN ValidateInstructions(decoded.val)
         ELSE ParseFailure("MalformedPayload", NoIndex, "",
                           Take(json_content, DiagLimit))
    ELSE ParseFailure("NoPayloadFound", NoIndex, "", <<>>)

(***************************************************************************)
(* AIConnector: the envelope of a response, validate_config and            *)
(* send_request.  What requests.post did is a record [error, status_code,  *)
(* text]: error names the exception it raised, "" when it returned a       *)
(* response.  The pair a call returns is the record [op, raised, ok, kind, *)
(* status_code, text, value, post]: kind names the message, status_code    *)
(* and text what the message quotes, value the decoded body of a success,  *)
(* post what requests.post did in the call.                                *)
(***************************************************************************)
K_choices == <<"c", "h", "o", "i", "c", "e", "s">>
K_message == <<"m", "e", "s", "s", "a", "g", "e">>

\* not content: None, False, 0, "", [] and {}
Falsy(v) ==
    \/ v.k = "null"
    \/ v.k \in {"bool", "num"} /\ v.n = 0
    \/ v.k = "str" /\ v.s = <<>>
    \/ v.k \in {"list", "dict"} /\ v.items = <<>>

\* response.get("choices", [{}])[0].get("message", {}).get("content", "")
ExtractContent(response) ==
    LET choices == Get(response, K_choices, JList(<<JDict(<<>>)>>))
        first == choices.items[1]
        message == Get(first, K_message, JDict(<<>>))
    IN  IF response.k # "dict" THEN [raised |-> TRUE, content |-> JNull]
        ELSE IF ~(choices.k = "list" /\ choices.items # <<>>)
        THEN [raised |-> TRUE, content |-> JNull]
        ELSE IF first.k # "dict" THEN [raised |-> TRUE, content |-> JNull]
        ELSE IF message.k # "dict" THEN [raised |-> TRUE, content |-> JNull]
        ELSE [raised |-> FALSE, content |-> Get(message, K_content, JStr(<<>>))]

\* parse_response(response): the content is taken out of the envelope, and
\* whatever raises on the way is caught by the outer handler
ParseResponseOf(response) ==
    LET extracted == ExtractContent(response) IN
    IF extracted.raised THEN ParseFailure("Exception", NoIndex, "", <<>>)
    ELSE IF Falsy(extracted.content)
    THEN ParseFailure("EmptyContent", NoIndex, "", <<>>)
    ELSE IF extracted.content.k # "str"
    THEN ParseFailure("Exception", NoIndex, "", <<>>)
    ELSE ParseResponse(extracted.content.s)

NoPost == [error |-> "", status_code |-> 0, text |-> <<>>, elapsed |-> 0, timeout |-> 0]

\* the timeout of the test request of validate_config, and of send_request
TestRequestTimeout == 10
RequestTimeout == 60

\* mutant of RequestsPost: the timeout is passed along and never enforced
RequestsPost_Unbounded(answer, timeout) == [answer EXCEPT !.timeout = timeout]

\* requests.post(..., timeout=timeout) against a server that answers as
\* answer after answer.elapsed seconds: an answer that takes longer than
\* the timeout is a Timeout exception
RequestsPost(answer, timeout) ==
    IF answer.error = "" /\ answer.elapsed > timeout
    THEN [error |-> "Timeout", status_code |-> 0, text |-> <<>>,
          elapsed |-> answer.elapsed, timeout |-> timeout]
    ELSE [answer EXCEPT !.timeout = timeout]
CallReturn(op, ok, kind, status_code, text, value, post) ==
    [op |-> op, raised |-> FALSE, ok |-> ok, kind |-> kind,
     status_code |-> status_code, text |-> text, value |-> value, post |-> post]
CallRaise(op, post) ==
    [op |-> op, raised |-> TRUE, ok |-> FALSE, kind |-> "", status_code |-> 0,
     text |-> <<>>, value |-> JNull, post |-> post]
NoCall == CallReturn("none", FALSE, "", 0, <<>>, JNull, NoPost)

\* validate_config(): the three fields are checked, then the test request
\* is sent and only its status is looked at
ValidateConfig(config, answer) ==
    LET Fail(kind) == CallReturn("validate_config", FALSE, kind, 0, <<>>, JNull, NoPost)
        post == RequestsPost(answer, TestRequestTimeout)
    IN
    IF config.api_url = "" THEN Fail("EmptyUrl")
    ELSE IF config.api_key = "" THEN Fail("EmptyKey")
    ELSE IF config.model = "" THEN Fail("EmptyModel")
    ELSE IF post.error # ""
    THEN CallReturn("validate_config", FALSE, "RequestException", 0, <<>>, JNull, post)
    ELSE IF post.status_code = 200
    THEN CallReturn("validate_config", TRUE, "Valid", 0, <<>>, JNull, post)
    ELSE CallReturn("validate_config", FALSE, "Status", post.status_code, post.text,
                    JNull, post)

\* mutant of SendRequest: response.json() is called outside the try
SendRequest_JsonUnguarded(answer) ==
    LET post == RequestsPost(answer, RequestTimeout) IN
    IF post.error # ""
    THEN CallReturn("send_request", FALSE, "RequestException", 0, <<>>, JNull, post)
    ELSE IF post.status_code = 200
    THEN IF JsonLoads(post.text).ok
         THEN CallReturn("send_request", TRUE, "Response", 0, <<>>,
                         JsonLoads(post.text).val, post)
         ELSE CallRaise("send_request", post)
    ELSE CallReturn("send_request", FALSE, "Status", post.status_code, post.text,
                    JNull, post)

\* send_request(prompt): the request is sent; a 200 response is decoded
\* with response.json(), inside the try
SendRequest(answer) ==
    LET post == RequestsPost(answer, RequestTimeout) IN
    IF post.error # ""
    THEN CallReturn("send_request", FALSE, "RequestException", 0, <<>>, JNull, post)
    ELSE IF post.status_code = 200
    THEN IF JsonLoads(post.text).ok
         THEN CallReturn("send_request", TRUE, "Response", 0, <<>>,
                         JsonLoads(post.text).val, post)
         ELSE CallReturn("send_request", FALSE, "RequestException", 0, <<>>, JNull, post)
    ELSE CallReturn("send_request", FALSE, "Status", post.status_code, post.text,
                    JNull, post)

\* the connector of a run that makes no request
ConnectorUnused ==
    /\ api_config = [api_url |-> "", api_key |-> "", model |-> "deepseek-chat"]
    /\ callResult = NoCall

(***************************************************************************)
(* DocProcessor: rendering one element.  A paragraph of the new document   *)
(* is a record; an attribute is <<>> while unset and <<v>> once set.       *)
(* Lengths are tenths of a point.                                          *)
(***************************************************************************)
Unset == <<>>
Set(v) == <<v>>

\* doc.add_paragraph(): an empty paragraph, no run yet
NewParagraph ==
    [text |-> <<>>,
     font_name |-> Unset, east_asia |-> Unset, size |-> Unset,
     bold |-> Unset, italic |-> Unset, underline |-> Unset,
     line_spacing_rule |-> Unset, line_spacing |-> Unset,
     alignment |-> Unset, first_line_indent |-> Unset,
     space_before |-> Unset, space_after |-> Unset]

\* Pt(x), x a number of tenths of a point
Pt(tenths) == tenths

\* isinstance(v, (int, float)): a JSON number, or a bool (an int in Python)
IsNumber(v) == v.k \in {"num", "bool"}
\* the number a numeric value compares as, in tenths (True is 1, False is 0)
NumVal(v) == IF v.k = "bool" THEN 10 * v.n ELSE v.n

\* x[:50] is defined for str and list
Sliceable(v) == v.k \in {"str", "list"}

\* the fixed table of named sizes; "WuHao" is "五号", "XiaoEr" is "小二", ...
FontSizeNames ==
    { <<"X", "2">>, <<"S", "3">>, <<"X", "3">>, <<"S", "4">>,
      <<"X", "4">>, <<"W", "5">>, <<"X", "5">>, <<"L", "6">> }
\* "小二": 18, "三号": 16, "小三": 15, "四号": 14, "小四": 12, "五号": 10.5,
\* "小五": 9, "六号": 7.5
FontSizeMapping(name) ==
    CASE name = <<"X", "2">> -> Pt(180) [] name = <<"S", "3">> -> Pt(160)
      [] name = <<"X", "3">> -> Pt(150) [] name = <<"S", "4">> -> Pt(140)
      [] name = <<"X", "4">> -> Pt(120) [] name = <<"W", "5">> -> Pt(105)
      [] name = <<"X", "5">> -> Pt(90)  [] name = <<"L", "6">> -> Pt(75)
\* "五号", the default size token, and "宋体", the default font
S_WuHao == <<"W", "5">>
S_SongTi == <<"z", "h", "_", "S", "o", "n", "g", "T", "i">>

\* self.font_manager.get_font_for_document(font_name): FontManager defines no
\* such method, so the attribute lookup raises AttributeError
GetFontForDocument(font_name) == [raised |-> TRUE, value |-> <<>>]

\* _apply_font: every statement is inside one try; the first exception
\* leaves the run as it is at that point
ApplyFont(para, format_info) ==
    LET font_name == Get(format_info, K_font, JStr(S_SongTi))
        document_font == GetFontForDocument(font_name)
        font_size == Get(format_info, K_size, JStr(S_WuHao))
        mapped_size ==
            IF font_size.k = "str"
            THEN IF font_size.s \in FontSizeNames
                 THEN [unit |-> "pt", v |-> FontSizeMapping(font_size.s), raw |-> JNull]
                 ELSE [unit |-> "pt", v |-> Pt(105), raw |-> JNull]
            ELSE [unit |-> "raw", v |-> 0, raw |-> font_size]
    IN  IF document_font.raised THEN para
        ELSE [para EXCEPT
                !.font_name = Set(document_font.value),
                !.east_asia = Set(document_font.value),
                !.size = Set(mapped_size),
                !.bold = Set(Get(format_info, K_bold, JBool(FALSE))),
                !.italic = Set(Get(format_info, K_italic, JBool(FALSE))),
                !.underline = Set(Get(format_info, K_underline, JBool(FALSE)))]

\* mutant of ApplyLineSpacing: the limits 0.5 and 36.0 are replaced too
ApplyLineSpacing_LimitsReplaced(para, format_info) ==
    LET given == Get(format_info, K_line_spacing, JNum(15)) IN
    IF ~(given.k \in {"num", "bool"}) THEN para
    ELSE LET n == IF given.k = "bool" THEN 10 * given.n ELSE given.n
             line_spacing == IF n >= 360 \/ n <= 5 THEN 15 ELSE n IN
         IF line_spacing = 10
         THEN [para EXCEPT !.line_spacing_rule = <<"SINGLE">>]
         ELSE IF line_spacing = 15
         THEN [para EXCEPT !.line_spacing_rule = <<"ONE_POINT_FIVE">>]
         ELSE IF line_spacing = 20
         THEN [para EXCEPT !.line_spacing_rule = <<"DOUBLE">>]
         ELSE [para EXCEPT !.line_spacing_rule = <<"EXACTLY">>,
                           !.line_spacing = <<line_spacing>>]

\* the line-spacing block of _apply_paragraph_format
ApplyLineSpacing(para, format_info) ==
    LET given == Get(format_info, K_line_spacing, JNum(15)) IN
    IF ~IsNumber(given) THEN para
    ELSE LET line_spacing ==
                 IF NumVal(given) > 360 \/ NumVal(given) < 5 THEN 15
                 ELSE NumVal(given) IN
         IF line_spacing = 10
         THEN [para EXCEPT !.line_spacing_rule = Set("SINGLE")]
         ELSE IF line_spacing = 15
         THEN [para EXCEPT !.line_spacing_rule = Set("ONE_POINT_FIVE")]
         ELSE IF line_spacing = 20
         THEN [para EXCEPT !.line_spacing_rule = Set("DOUBLE")]
         ELSE [para EXCEPT !.line_spacing_rule = Set("EXACTLY"),
                           !.line_spacing = Set(Pt(line_spacing))]

\* the alignment block
ApplyAlignment(para, format_info) ==
    LET alignment == Get(format_info, K_alignment, JStr(S_left)) IN
    [para EXCEPT !.alignment =
        Set(IF alignment = JStr(S_center) THEN "CENTER"
            ELSE IF alignment = JStr(S_right) THEN "RIGHT"
            ELSE IF alignment = JStr(S_justify) THEN "JUSTIFY"
            ELSE "LEFT")]

\* mutant of ApplyFirstLineIndent: the 21 pt default is given to every
\* element type
ApplyFirstLineIndent_AnyType(para, format_info, element_type) ==
    LET first_line_indent == Get(format_info, K_first_line_indent, JNull) IN
    IF first_line_indent.k # "null"
    THEN IF first_line_indent.k \in {"num", "bool"}
         THEN [para EXCEPT !.first_line_indent =
                  <<IF first_line_indent.k = "bool" THEN 10 * first_line_indent.n
                    ELSE first_line_indent.n>>]
         ELSE para
    ELSE [para EXCEPT !.first_line_indent = <<210>>]

\* the first-line-indent block
ApplyFirstLineIndent(para, format_info, element_type) ==
    LET first_line_indent == Get(format_info, K_first_line_indent, JNull) IN
    IF first_line_indent.k # "null"
    THEN IF IsNumber(first_line_indent)
         THEN [para EXCEPT !.first_line_indent = Set(Pt(NumVal(first_line_indent)))]
         ELSE para
    ELSE IF element_type = JStr(S_ZhengWen)
         THEN [para EXCEPT !.first_line_indent = Set(Pt(210))]
         ELSE para

\* the before-spacing and after-spacing blocks
ApplySpacing(para, format_info) ==
    LET before_spacing == Get(format_info, K_before_spacing, JNull)
        after_spacing == Get(format_info, K_after_spacing, JNull)
        p1 == IF before_spacing.k # "null" /\ IsNumber(before_spacing)
              THEN [para EXCEPT !.space_before = Set(Pt(NumVal(before_spacing)))]
              ELSE para
    IN  IF after_spacing.k # "null" /\ IsNumber(after_spacing)
        THEN [p1 EXCEPT !.space_after = Set(Pt(NumVal(after_spacing)))]
        ELSE p1

\* _apply_paragraph_format: line spacing, alignment, first-line indent,
\* spacing before and after, each in its own try
ApplyParagraphFormat(para, format_info, element_type) ==
    ApplySpacing(
        ApplyFirstLineIndent(
            ApplyAlignment(ApplyLineSpacing(para, format_info), format_info),
            format_info, element_type),
        format_info)

\* paragraph.add_run(text) of the document library, for a text that passed
\* content[:50]: a string becomes the run's text; a list is read item by
\* item as if it were a string, which raises on an item that is not one
AddRunRaises(text) ==
    text.k = "list" /\ \E i \in 1..Len(text.items) : text.items[i].k # "str"
RECURSIVE ConcatStrs(_, _)
ConcatStrs(vals, i) ==
    IF i > Len(vals) THEN <<>> ELSE vals[i].s \o ConcatStrs(vals, i + 1)
RunText(text) == IF text.k = "str" THEN text.s ELSE ConcatStrs(text.items, 1)

\* isinstance(format_info, dict), else format_info = {}
FormatInfo(element) ==
    LET format_info == Get(element, K_format, JDict(<<>>)) IN
    IF format_info.k = "dict" THEN format_info ELSE JDict(<<>>)

\* mutant of GetsParagraph: the type is read with element['type'], so an
\* element without one raises before its paragraph is added
GetsParagraph_NeedsType(element) ==
    /\ element.k = "dict" /\ Sliceable(Get(element, K_content, JStr(<<>>)))
    /\ HasKey(element, K_type)

\* mutant of GetsParagraph: a format that is not a mapping raises before the
\* paragraph is added
GetsParagraph_NeedsFormatDict(element) ==
    /\ element.k = "dict" /\ Sliceable(Get(element, K_content, JStr(<<>>)))
    /\ Get(element, K_format, JDict(<<>>)).k = "dict"

\* does the element get a paragraph: it is a dict and content[:50] works
GetsParagraph(element) ==
    element.k = "dict" /\ Sliceable(Get(element, K_content, JStr(<<>>)))

\* _process_element(doc, element): the document after the call.  The call
\* itself never raises: its body is one try whose handler only logs.
ProcessElement(doc, element) ==
    IF ~GetsParagraph(element) THEN doc
    ELSE LET text == Get(element, K_content, JStr(<<>>))
             element_type == Get(element, K_type, JStr(S_ZhengWen))
             format_info == FormatInfo(element)
             paragraph == NewParagraph
         IN  IF AddRunRaises(text) THEN Append(doc, paragraph)
             ELSE LET run == [paragraph EXCEPT !.text = RunText(text)]
                  IN  Append(doc, ApplyParagraphFormat(ApplyFont(run, format_info),
                                                       format_info, element_type))

\* mutant of ProcessElements: an element that raises ends the loop
RECURSIVE ProcessElements_AbortOnRaise(_, _, _)
ProcessElements_AbortOnRaise(doc, elements, i) ==
    IF i > Len(elements) THEN doc
    ELSE IF elements[i].k = "dict"
            /\ LET text == Get(elements[i], K_content, JStr(<<>>))
               IN  ~Sliceable(text) \/ AddRunRaises(text)
    THEN ProcessElement(doc, elements[i])
    ELSE ProcessElements_AbortOnRaise(ProcessElement(doc, elements[i]), elements, i + 1)

\* the loop of apply_formatting over the elements, from element i
RECURSIVE ProcessElements(_, _, _)
ProcessElements(doc, elements, i) ==
    IF i > Len(elements) THEN doc
    ELSE ProcessElements(ProcessElement(doc, elements[i]), elements, i + 1)

(***************************************************************************)
(* DocProcessor: files, read_document and apply_formatting.  A path is a   *)
(* record [dir, stem, ext, suffixed]: suffixed says the stem ends with the *)
(* suffix "_已排版" of an output name.                                     *)
(***************************************************************************)
Path(dir, stem, ext) == [dir |-> dir, stem |-> stem, ext |-> ext, suffixed |-> FALSE]
\* None, for a path attribute or argument
NoPath == Path("None", "None", "")

\* the documents on disk that read_document is asked to read: Word
\* documents, one of them named with an upper-case extension
SourceFiles == { Path("in", "a", ".docx"), Path("in", "b", ".docx"),
                 Path("in", "d", ".DOCX") }
\* a file that is_valid_docx refuses
InvalidFiles == { Path("in", "c", ".txt") }
\* is_valid_docx(file_path): a Word document, whatever the case of its
\* extension
IsValidDocx(file_path) == file_path \in SourceFiles
\* the directory a caller may give as custom_save_path
CustomDirs == { "out" }

\* [p.text for p in document.paragraphs] of a source file
FileParagraphs(path) == <<path.stem>>

\* generate_output_filename(input_file, custom_save_path): the source's name
\* with the suffix, in the custom directory when one is given and is a
\* directory, else in the source's directory
GenerateOutputFilename(source, custom_save_path, isdir) ==
    [source EXCEPT
        !.suffixed = TRUE,
        !.dir = IF custom_save_path # "None" /\ isdir THEN custom_save_path ELSE @]

\* path.replace('.docx', '_已排版.docx'), for a path whose directory does not
\* hold '.docx'
ReplaceDocx(path) ==
    IF path.ext = ".docx" THEN [path EXCEPT !.suffixed = TRUE] ELSE path

\* the name used when generate_output_filename raises
FallbackOutputName(source, custom_save_path, isdir) ==
    IF custom_save_path # "None" /\ isdir
    THEN [ReplaceDocx(source) EXCEPT !.dir = custom_save_path]
    ELSE ReplaceDocx(source)

\* what the collaborators of one apply_formatting call do: whether
\* backup_file, Document(), generate_output_filename and the save (makedirs
\* or new_doc.save) raise, and whether custom_save_path is a directory.
\* A flag is FALSE when the call it is about is not reached.
ApplyEnvs ==
    { e \in [backupRaises : BOOLEAN, createRaises : BOOLEAN, nameRaises : BOOLEAN,
             isdir : BOOLEAN, saveRaises : BOOLEAN] :
        /\ e.backupRaises => ~(e.createRaises \/ e.nameRaises \/ e.isdir \/ e.saveRaises)
        /\ e.createRaises => ~(e.nameRaises \/ e.isdir \/ e.saveRaises) }

NoDocument == <<>>

\* mutant of ApplyRecord: the call succeeds once the elements are rendered,
\* whatever the save does
ApplyRecord_RenderedIsSuccess(ret, steps, new_doc) ==
    [called |-> TRUE, ret |-> Len(steps) >= 3, steps |-> steps, new_doc |-> new_doc]

\* the record of a call: ret is the value returned, steps the collaborator
\* calls that completed, in order, new_doc the document built
ApplyRecord(ret, steps, new_doc) ==
    [called |-> TRUE, ret |-> ret, steps |-> steps, new_doc |-> new_doc]
NotApplied == [called |-> FALSE, ret |-> FALSE, steps |-> <<>>, new_doc |-> NoDocument]

\* the elements apply_formatting iterates over
ElementsOf(instructions) == Get(instructions, K_elements, JList(<<>>))

\* the early returns of apply_formatting, before the backup
RejectedEarly(instructions) ==
    \/ document = NoPath
    \/ instructions.k # "dict"
    \/ ElementsOf(instructions).k # "list"

\* the record of a read_document call: ret is the value returned
NotRead == [called |-> FALSE, ret |-> FALSE]
ReadReturn(ret) == [called |-> TRUE, ret |-> ret]

InitDoc ==
    /\ document = NoPath
    /\ input_file = NoPath
    /\ output_file = NoPath
    /\ paragraphs_text = <<>>
    /\ readResult = NotRead
    /\ applyResult = NotApplied
    /\ written = {}

\* what the collaborators of one read_document call do: the document is
\* read, Document(file_path) raises, or it opens and the reading of the
\* text of its paragraphs raises
ReadOutcomes == { "read", "open_raises", "text_raises" }

\* read_document(file_path): a file is_valid_docx refuses, or one that
\* Document() cannot open, leaves the processor as it was; document and
\* input_file are assigned before the text of the paragraphs is read
ReadDocument(file_path, outcome) ==
    /\ IF ~IsValidDocx(file_path) \/ outcome = "open_raises"
       THEN /\ UNCHANGED <<document, input_file, paragraphs_text>>
            /\ readResult' = ReadReturn(FALSE)
       ELSE IF outcome = "text_raises"
       THEN /\ document' = file_path
            /\ input_file' = file_path
            /\ UNCHANGED paragraphs_text
            /\ readResult' = ReadReturn(FALSE)
       ELSE /\ document' = file_path
            /\ input_file' = file_path
            /\ paragraphs_text' = FileParagraphs(file_path)
            /\ readResult' = ReadReturn(TRUE)
    /\ UNCHANGED <<output_file, request, applyResult, written>>
    /\ UNCHANGED <<parseVars, fontVars>>

\* get_document_text()
GetDocumentText == IF document = NoPath THEN <<>> ELSE paragraphs_text

\* get_output_file()
GetOutputFile == output_file

\* new_doc.save(path): the file at path now holds doc
Save(files, path, doc) ==
    {f \in files : f.path # path} \cup {[path |-> path, doc |-> doc]}

\* mutant of ApplyFormatting: the backup is taken last, after the save
ApplyFormatting_BackupLast(instructions, custom_save_path, env) ==
    /\ IF RejectedEarly(instructions)
       THEN /\ applyResult' = ApplyRecord(FALSE, <<>>, NoDocument)
            /\ UNCHANGED <<output_file, written>>
       ELSE IF env.createRaises
       THEN /\ applyResult' = ApplyRecord(FALSE, <<>>, NoDocument)
            /\ UNCHANGED <<output_file, written>>
       ELSE LET new_doc == ProcessElements(<<>>, ElementsOf(instructions).items, 1)
                name == IF env.nameRaises
                        THEN FallbackOutputName(input_file, custom_save_path, env.isdir)
                        ELSE GenerateOutputFilename(input_file, custom_save_path, env.isdir)
            IN  /\ output_file' = name
                /\ IF env.saveRaises
                   THEN /\ applyResult' = ApplyRecord(FALSE, <<"create", "render">>, new_doc)
                        /\ UNCHANGED written
                   ELSE /\ applyResult' =
                              IF env.backupRaises
                              THEN ApplyRecord(FALSE, <<"create", "render", "save">>, new_doc)
                              ELSE ApplyRecord(TRUE, <<"create", "render", "save", "backup">>,
                                               new_doc)
                        /\ written' = Save(written, name, new_doc)
    /\ UNCHANGED <<document, input_file, paragraphs_text, readResult, request>>
    /\ UNCHANGED <<parseVars, fontVars>>

\* mutant of EarlyReturn: the instruction set is looked at after the backup
EarlyReturn_AfterBackup == ApplyRecord(FALSE, <<"backup">>, NoDocument)

\* the return False of the early returns: no collaborator was called
EarlyReturn == ApplyRecord(FALSE, <<>>, NoDocument)

\* apply_formatting(formatting_instructions, custom_save_path)
ApplyFormatting(instructions, custom_save_path, env) ==
    /\ IF RejectedEarly(instructions)
       THEN /\ applyResult' = EarlyReturn
            /\ UNCHANGED <<output_file, written>>
       ELSE IF env.backupRaises
       THEN /\ applyResult' = ApplyRecord(FALSE, <<>>, NoDocument)
            /\ UNCHANGED <<output_file, written>>
       ELSE IF env.createRaises
       THEN /\ applyResult' = ApplyRecord(FALSE, <<"backup">>, NoDocument)
            /\ UNCHANGED <<output_file, written>>
       ELSE LET new_doc == ProcessElements(<<>>, ElementsOf(instructions).items, 1)
                name == IF env.nameRaises
                        THEN FallbackOutputName(input_file, custom_save_path, env.isdir)
                        ELSE GenerateOutputFilename(input_file, custom_save_path, env.isdir)
            IN  /\ output_file' = name
                /\ IF env.saveRaises
                   THEN /\ applyResult' =
                              ApplyRecord(FALSE, <<"backup", "create", "render">>, new_doc)
                        /\ UNCHANGED written
                   ELSE /\ applyResult' =
                              ApplyRecord(TRUE, <<"backup", "create", "render", "save">>,
                                          new_doc)
                        /\ written' = Save(written, name, new_doc)
    /\ UNCHANGED <<document, input_file, paragraphs_text, readResult, request>>
    /\ UNCHANGED <<parseVars, fontVars>>

(***************************************************************************)
(* FontManager: the alias table and the resolution of a requested name.    *)
(* A query returns [raised, value, flag]: value is the name returned, flag *)
(* the boolean returned.                                                   *)
(***************************************************************************)
\* the table load_font_mapping starts from
StaticFontMapping ==
    [label \in { "zh_SongTi", "zh_HeiTi", "zh_KaiTi", "zh_FangSong",
                 "zh_WeiRuanYaHei", "zh_WeiRuanYaHei UI", "zh_HuaWenSongTi",
                 "zh_HuaWenHeiTi", "zh_HuaWenKaiTi", "zh_HuaWenFangSong",
                 "Times New Roman", "Arial", "Calibri" } |->
        CASE label = "zh_SongTi" -> "SimSun"
          [] label = "zh_HeiTi" -> "SimHei"
          [] label = "zh_KaiTi" -> "KaiTi"
          [] label = "zh_FangSong" -> "FangSong"
          [] label = "zh_WeiRuanYaHei" -> "Microsoft YaHei UI"
          [] label = "zh_WeiRuanYaHei UI" -> "Microsoft YaHei UI"
          [] label = "zh_HuaWenSongTi" -> "STSong"
          [] label = "zh_HuaWenHeiTi" -> "STHeiti"
          [] label = "zh_HuaWenKaiTi" -> "STKaiti"
          [] label = "zh_HuaWenFangSong" -> "STFangsong"
          [] label = "Times New Roman" -> "Times New Roman"
          [] label = "Arial" -> "Arial"
          [] label = "Calibri" -> "Calibri"]

\* self.font_mapping[chinese_name] = english_name
WithMapping(mapping, chinese_name, english_name) ==
    [label \in DOMAIN mapping \cup {chinese_name} |->
        IF label = chinese_name THEN english_name ELSE mapping[label]]

FontReturn(value) == [raised |-> FALSE, value |-> value, flag |-> FALSE]
FlagReturn(flag) == [raised |-> FALSE, value |-> "", flag |-> flag]
FontRaise == [raised |-> TRUE, value |-> "", flag |-> FALSE]

\* x in self.system_fonts
Installed(fonts, name) == \E i \in 1..Len(fonts) : fonts[i] = name

\* mapped_font = self.font_mapping.get(font_name);
\* mapped_font and mapped_font in self.system_fonts
AliasInstalled(fonts, mapping, font_name) ==
    /\ font_name \in DOMAIN mapping
    /\ mapping[font_name] # ""
    /\ Installed(fonts, mapping[font_name])

\* is_font_available(font_name)
IsFontAvailable(fonts, mapping, font_name) ==
    \/ Installed(fonts, font_name)
    \/ AliasInstalled(fonts, mapping, font_name)

\* mutant of FirstInstalledOrLiteral: the inventory is indexed unguarded
FirstInstalled_Unguarded(fonts) ==
    IF fonts # <<>> THEN FontReturn(fonts[1]) ELSE FontRaise

\* self.system_fonts[0] if self.system_fonts else "Arial"
FirstInstalledOrLiteral(fonts) ==
    IF fonts # <<>> THEN FontReturn(fonts[1]) ELSE FontReturn("Arial")

\* get_available_font(font_name, fallback)
GetAvailableFont(fonts, mapping, font_name, fallback) ==
    IF IsFontAvailable(fonts, mapping, font_name) THEN FontReturn(font_name)
    ELSE IF AliasInstalled(fonts, mapping, font_name)
    THEN FontReturn(mapping[font_name])
    ELSE IF Installed(fonts, fallback) THEN FontReturn(fallback)
    ELSE FirstInstalledOrLiteral(fonts)

(***************************************************************************)
(* FontManager: the enumeration of the installed fonts.  The machine       *)
(* answers each enumeration with [raises, fonts]; load_system_fonts        *)
(* returns [fonts, strategies]: the inventory, and the enumerations it     *)
(* called, in order.                                                       *)
(***************************************************************************)
\* the length under which a font list counts as abnormally short
SmallInventory == 10

\* basic_fonts, and the list of the except branch
BasicFonts ==
    <<"Arial", "Times New Roman", "Courier New", "SimSun", "SimHei", "Microsoft YaHei",
      "zh_SongTi", "zh_HeiTi", "zh_WeiRuanYaHei">>

\* common_fonts: <<cn_name, en_name>>, in the order of the source
CommonFonts ==
    << <<"zh_SongTi", "SimSun">>, <<"zh_HeiTi", "SimHei">>, <<"zh_KaiTi", "KaiTi">>,
       <<"zh_FangSong", "FangSong">>, <<"zh_WeiRuanYaHei", "Microsoft YaHei">>,
       <<"zh_HuaWenSongTi", "STSong">>, <<"zh_HuaWenHeiTi", "STHeiti">>,
       <<"zh_HuaWenKaiTi", "STKaiti">>, <<"zh_HuaWenFangSong", "STFangsong">>,
       <<"zh_YingWen", "Arial">>, <<"zh_XinLuoMa", "Times New Roman">>,
       <<"zh_DengKuan", "Courier New">> >>

\* font.startswith('@'): the vertical variants the machines below report
VerticalFonts == { "@SimSun", "@SimHei" }
NotVertical(font) == font \notin VerticalFonts

\* the enumerations before the names are added: QFontDatabase.families()
\* without the vertical variants, then on macOS fc-list and system_profiler
\* while the list is short, each adopted only when it is longer
Enumerate(h) ==
    LET filtered == SelectSeq(h.families.fonts, NotVertical)
        short == Len(filtered) < SmallInventory
        mac == short /\ h.system = "Darwin"
        afterFc == IF mac /\ ~h.fc_list.raises /\ Len(h.fc_list.fonts) > Len(filtered)
                   THEN h.fc_list.fonts ELSE filtered
        profiled == mac /\ Len(afterFc) < SmallInventory
        afterProfiler ==
            IF /\ profiled
               /\ ~h.system_profiler.raises
               /\ Len(h.system_profiler.fonts) > Len(afterFc)
            THEN h.system_profiler.fonts ELSE afterFc
    IN  [fonts |-> afterProfiler,
         strategies |-> <<"QFontDatabase">>
                        \o (IF mac THEN <<"fc-list">> ELSE <<>>)
                        \o (IF profiled THEN <<"system_profiler">> ELSE <<>>)]

\* the loop over common_fonts: the name of the other language is appended
\* when only one of the two is in the list
RECURSIVE AddCommonNames(_, _)
AddCommonNames(fonts, i) ==
    IF i > Len(CommonFonts) THEN fonts
    ELSE LET cn_name == CommonFonts[i][1]
             en_name == CommonFonts[i][2]
         IN  AddCommonNames(
                 IF ~Installed(fonts, cn_name) /\ Installed(fonts, en_name)
                 THEN Append(fonts, cn_name)
                 ELSE IF ~Installed(fonts, en_name) /\ Installed(fonts, cn_name)
                 THEN Append(fonts, en_name)
                 ELSE fonts,
                 i + 1)

\* the loop over basic_fonts: the ones not in the list are appended
RECURSIVE AddBasicFonts(_, _)
AddBasicFonts(fonts, i) ==
    IF i > Len(BasicFonts) THEN fonts
    ELSE AddBasicFonts(IF Installed(fonts, BasicFonts[i]) THEN fonts
                       ELSE Append(fonts, BasicFonts[i]),
                       i + 1)

\* load_system_fonts()
LoadSystemFonts(h) ==
    IF h.families.raises
    THEN [fonts |-> BasicFonts, strategies |-> <<"QFontDatabase">>]
    ELSE LET named == AddCommonNames(Enumerate(h).fonts, 1)
         IN  [fonts |-> IF Len(named) < SmallInventory THEN AddBasicFonts(named, 1)
                        ELSE named,
              strategies |-> Enumerate(h).strategies]

(***************************************************************************)
(* FontManager: the alias table and its file.  A Python dict is a function *)
(* together with the insertion order of its keys; the file is              *)
(* [exists, decodes, mapping, order].                                      *)
(***************************************************************************)
EmptyMapping == [label \in {} |-> ""]

\* the keys of the table of load_font_mapping, in the order of the source
StaticMappingOrder ==
    <<"zh_SongTi", "zh_HeiTi", "zh_KaiTi", "zh_FangSong", "zh_WeiRuanYaHei",
      "zh_WeiRuanYaHei UI", "zh_HuaWenSongTi", "zh_HuaWenHeiTi", "zh_HuaWenKaiTi",
      "zh_HuaWenFangSong", "Times New Roman", "Arial", "Calibri">>

\* the order of the keys after d[key] = value
KeyOrderWith(order, key) == IF Installed(order, key) THEN order ELSE Append(order, key)

\* {v: k for k, v in mapping.items()}: of the labels of a name the last wins
ReverseMapping(mapping, order) ==
    [name \in {mapping[label] : label \in DOMAIN mapping} |->
        LET last == CHOOSE i \in 1..Len(order) :
                        /\ mapping[order[i]] = name
                        /\ \A j \in (i + 1)..Len(order) : mapping[order[j]] # name
        IN  order[last]]

\* mapping.update(additional)
UpdatedMapping(mapping, additional) ==
    [label \in DOMAIN mapping \cup DOMAIN additional |->
        IF label \in DOMAIN additional THEN additional[label] ELSE mapping[label]]
UpdatedOrder(order, additional_order) ==
    LET NewKey(label) == ~Installed(order, label)
    IN  order \o SelectSeq(additional_order, NewKey)

NoFile == [exists |-> FALSE, decodes |-> FALSE, mapping |-> EmptyMapping, order |-> <<>>]
UndecodableFile ==
    [exists |-> TRUE, decodes |-> FALSE, mapping |-> EmptyMapping, order |-> <<>>]
\* json.dump(mapping, f)
DumpedFile(mapping, order) ==
    [exists |-> TRUE, decodes |-> TRUE, mapping |-> mapping, order |-> order]

\* load_font_mapping(): the static table, extended by the file when it
\* exists and decodes; returns [font_mapping, order, reverse_mapping]
LoadFontMapping(file) ==
    LET merged == file.exists /\ file.decodes
        mapping == IF merged THEN UpdatedMapping(StaticFontMapping, file.mapping)
                   ELSE StaticFontMapping
        order == IF merged THEN UpdatedOrder(StaticMappingOrder, file.order)
                 ELSE StaticMappingOrder
    IN  [font_mapping |-> mapping, order |-> order,
         reverse_mapping |-> ReverseMapping(mapping, order)]

\* get_font_display_name(font_name)
GetFontDisplayName(reverse, font_name) ==
    FontReturn(IF font_name \in DOMAIN reverse THEN reverse[font_name] ELSE font_name)

(***************************************************************************)
(* FontManager: the singleton.  manager holds the number of objects        *)
(* created (instances), _initialized, the runs of load_system_fonts        *)
(* (loads) with the enumerations the last one called, and the numbers of   *)
(* FontManager() and add_font_mapping calls made.                          *)
(***************************************************************************)
NotConstructed ==
    [instances |-> 0, initialized |-> FALSE, loads |-> 0, strategies |-> <<>>,
     constructions |-> 0, adds |-> 0]
NoHost ==
    [families |-> [raises |-> FALSE, fonts |-> <<>>], system |-> "",
     fc_list |-> [raises |-> FALSE, fonts |-> <<>>],
     system_profiler |-> [raises |-> FALSE, fonts |-> <<>>]]

\* __new__(cls): an object is created when _instance is None
FontManagerNew(m) ==
    IF m.instances = 0 THEN [m EXCEPT !.instances = 1, !.initialized = FALSE] ELSE m

\* mutant of NeedsInit: __init__ does not look at _initialized
NeedsInit_Always(m) == TRUE

\* __init__(self): if self._initialized: return
NeedsInit(m) == ~m.initialized

\* FontManager(): __new__, then __init__
FontManagerInit ==
    LET m == FontManagerNew(manager) IN
    /\ IF NeedsInit(m)
       THEN LET loaded == LoadSystemFonts(host)
                table == LoadFontMapping(mapping_file)
            IN  /\ manager' = [m EXCEPT !.initialized = TRUE, !.loads = @ + 1,
                                        !.strategies = loaded.strategies,
                                        !.constructions = @ + 1]
                /\ system_fonts' = loaded.fonts
                /\ font_mapping' = table.font_mapping
                /\ mapping_order' = table.order
                /\ reverse_mapping' = table.reverse_mapping
       ELSE /\ manager' = [m EXCEPT !.constructions = @ + 1]
            /\ UNCHANGED <<system_fonts, font_mapping, mapping_order, reverse_mapping>>
    /\ fontResult' = [op |-> "FontManager", args |-> <<>>, result |-> FontReturn("")]
    /\ UNCHANGED <<fontQuery, mapping_file, host>>
    /\ UNCHANGED <<parseVars, docVars>>

\* load_font_mapping(), called on the manager
ReloadFontMapping ==
    LET table == LoadFontMapping(mapping_file) IN
    /\ font_mapping' = table.font_mapping
    /\ mapping_order' = table.order
    /\ reverse_mapping' = table.reverse_mapping
    /\ fontResult' = [op |-> "load_font_mapping", args |-> <<>>, result |-> FontReturn("")]
    /\ UNCHANGED <<system_fonts, fontQuery, mapping_file, manager, host>>
    /\ UNCHANGED <<parseVars, docVars>>

\* what the write of add_font_mapping does: it completes, open() raises
\* and leaves the file alone, or json.dump raises in the truncated file
WriteOutcomes == { "written", "open_raises", "dump_raises" }

\* add_font_mapping(chinese_name, english_name)
AddFontMapping(chinese_name, english_name, outcome) ==
    LET mapping == WithMapping(font_mapping, chinese_name, english_name)
        order == KeyOrderWith(mapping_order, chinese_name)
    IN  /\ font_mapping' = mapping
        /\ mapping_order' = order
        /\ reverse_mapping' = WithMapping(reverse_mapping, english_name, chinese_name)
        /\ mapping_file' = CASE outcome = "written" -> DumpedFile(mapping, order)
                             [] outcome = "open_raises" -> mapping_file
                             [] outcome = "dump_raises" -> UndecodableFile
        /\ fontResult' = [op |-> "add_font_mapping",
                          args |-> <<chinese_name, english_name>>,
                          result |-> FlagReturn(outcome = "written")]
        /\ manager' = [manager EXCEPT !.adds = @ + 1]
        /\ UNCHANGED <<system_fonts, fontQuery, host>>
        /\ UNCHANGED <<parseVars, docVars>>

NotAsked == [op |-> "none", args |-> <<>>, result |-> FontReturn("")]
NoQuery == [font_name |-> "", fallback |-> ""]

\* the font manager of a run that makes no font query
FontUnused ==
    /\ system_fonts = <<>>
    /\ font_mapping = StaticFontMapping
    /\ fontQuery = NoQuery
    /\ fontResult = NotAsked
    /\ reverse_mapping = ReverseMapping(StaticFontMapping, StaticMappingOrder)
    /\ mapping_order = StaticMappingOrder
    /\ mapping_file = NoFile
    /\ manager = NotConstructed
    /\ host = NoHost

(***************************************************************************)
(* The texts parse_response is given: what a model may answer to the       *)
(* prompt of generate_prompt.  Dumps writes a JSON value as text.          *)
(***************************************************************************)
DigitChar(d) ==
    CASE d = 0 -> "0" [] d = 1 -> "1" [] d = 2 -> "2" [] d = 3 -> "3"
      [] d = 4 -> "4" [] d = 5 -> "5" [] d = 6 -> "6" [] d = 7 -> "7"
      [] d = 8 -> "8" [] d = 9 -> "9"

RECURSIVE IntChars(_)
IntChars(n) ==
    IF n < 10 THEN <<DigitChar(n)>>
    ELSE Append(IntChars(n \div 10), DigitChar(n % 10))

\* a number of tenths as text: 15 is 1.5, 20 is 2
NumChars(tenths) ==
    IF tenths % 10 = 0 THEN IntChars(tenths \div 10)
    ELSE IntChars(tenths \div 10) \o <<".", DigitChar(tenths % 10)>>

RECURSIVE Dumps(_)
RECURSIVE DumpsItems(_, _)
RECURSIVE DumpsPairs(_, _)
DumpsItems(vals, i) ==
    IF i > Len(vals) THEN <<>>
    ELSE (IF i > 1 THEN <<",">> ELSE <<>>) \o Dumps(vals[i])
         \o DumpsItems(vals, i + 1)
DumpsPairs(pairs, i) ==
    IF i > Len(pairs) THEN <<>>
    ELSE (IF i > 1 THEN <<",">> ELSE <<>>)
         \o <<"\"">> \o pairs[i].key \o <<"\"", ":">> \o Dumps(pairs[i].val)
         \o DumpsPairs(pairs, i + 1)
Dumps(v) ==
    CASE v.k = "null" -> Lit_null
      [] v.k = "bool" -> (IF v.n = 1 THEN Lit_true ELSE Lit_false)
      [] v.k = "num" -> NumChars(v.n)
      [] v.k = "str" -> <<"\"">> \o v.s \o <<"\"">>
      [] v.k = "list" -> <<"[">> \o DumpsItems(v.items, 1) \o <<"]">>
      [] v.k = "dict" -> <<"{">> \o DumpsPairs(v.items, 1) \o <<"}">>

\* all sequences over S of length at most n
SeqsUpTo(S, n) == UNION {[1..m -> S] : m \in 0..n}

\* elements a model may return: well-formed ones, and each way the
\* validation of parse_response can meet a malformed one
ParseElems ==
    { JDict(<<Pair(K_type, JStr(S_BiaoTi)), Pair(K_content, JStr(<<"{", "a", "}">>)),
              Pair(K_format, JDict(<<Pair(K_size, JNum(105))>>))>>),
      JDict(<<Pair(K_type, JStr(S_ZhengWen)), Pair(K_format, JDict(<<>>))>>),
      JDict(<<Pair(K_content, JStr(<<"a">>))>>),
      JDict(<<Pair(K_content, JNull), Pair(K_format, JDict(<<>>))>>),
      JDict(<<Pair(K_content, JStr(<<"a">>)), Pair(K_format, JNull)>>),
      JStr(<<"a">>) }

\* what a payload may hold under "elements" besides a list
NonListElements ==
    { JStr(<<"n", "o">>), JDict(<<>>), JNum(50), JBool(TRUE), JNull }

\* the decoded payloads: with a list of elements, with "elements" of
\* another type, and with no "elements" key
Payloads ==
    { JDict(<<Pair(K_elements, JList(es))>>) : es \in SeqsUpTo(ParseElems, MaxElems) }
    \cup { JDict(<<Pair(K_elements, x)>>) : x \in NonListElements }
    \cup { JDict(<<>>), JDict(<<Pair(K_type, JStr(<<"a">>))>>) }

RECURSIVE Repeat(_, _)
Repeat(ch, n) == IF n = 0 THEN <<>> ELSE <<ch>> \o Repeat(ch, n - 1)

\* the payload texts: every payload as compact JSON, a payload written with
\* spaces, and texts between braces that do not decode (the last one longer
\* than the diagnostic limit)
PayloadTexts ==
    { Dumps(p) : p \in Payloads }
    \cup { <<"{", " ", "\"">> \o K_elements \o <<"\"", " ", ":", " ", "[", " ", "]", " ", "}">>,
           <<"{", "\"">> \o K_elements \o <<"\"", ":", "[", "}">>,
           <<"{", "\"">> \o K_elements \o <<"\"", ":", "[", "]", ",", "}">>,
           <<"{", "x", "}">>,
           <<"{">> \o Repeat("x", DiagLimit + 5) \o <<"}">> }

\* text around the payload: prose, with or without a stray brace, at most
\* MaxNoise characters on a side and MaxNoise + 1 in all
NoiseChars == {"x", "{", "}"}
MaxNoise == 1
Noise == SeqsUpTo(NoiseChars, MaxNoise)
NoisePairs ==
    { np \in Noise \X Noise : Len(np[1]) + Len(np[2]) <= MaxNoise + 1 }

\* the texts handed to parse_response
Contents ==
    { np[1] \o p \o np[2] : np \in NoisePairs, p \in PayloadTexts }
    \cup { np[1] \o np[2] : np \in NoisePairs }
    \cup { <<"n", "o", " ", "j", "s", "o", "n">>, <<"}", " ", "x", " ", "{">> }

NotCalled == ParseFailure("NotCalled", NoIndex, "", <<>>)

\* no apply_formatting call is to be made
NoRequest == [instructions |-> JNull, custom_save_path |-> "None"]

(***************************************************************************)
(* parse_response as a state machine: a text arrives, and the call         *)
(* returns its pair.                                                       *)
(***************************************************************************)
InitParse ==
    /\ content \in Contents
    /\ parseResult = NotCalled
    /\ ConnectorUnused
    /\ InitDoc
    /\ request = NoRequest
    /\ FontUnused

ParseResponseCall ==
    /\ parseResult = NotCalled
    /\ parseResult' = ParseResponse(content)
    /\ UNCHANGED <<content, api_config, callResult>>
    /\ UNCHANGED <<docVars, fontVars>>

NextParse == ParseResponseCall

SpecParse == InitParse /\ [][NextParse]_vars

(***************************************************************************)
(* AIConnector over a run: the configuration is validated, the request is  *)
(* sent, and the response returned is parsed.                              *)
(***************************************************************************)
\* the configurations: each field empty or not
ApiConfigs ==
    [api_url : {"", "https://api"}, api_key : {"", "sk"}, model : {"", "deepseek-chat"}]

\* the envelope around a content written as JSON text
Envelope(content_text) ==
    <<"{", "\"">> \o K_choices \o <<"\"", ":", "[", "{", "\"">> \o K_message
        \o <<"\"", ":", "{", "\"">> \o K_content \o <<"\"", ":">> \o content_text
        \o <<"}", "}", "]", "}">>

\* the bodies of a response: envelopes with a payload, prose, a number, and
\* an empty string as content, envelopes of another shape, and a body that
\* is not JSON
ResponseBodies ==
    { Envelope(<<"\"", "{", "}", "\"">>),
      Envelope(<<"\"", "h", "i", "\"">>),
      Envelope(<<"5">>),
      Envelope(<<"\"", "\"">>),
      <<"{", "\"">> \o K_choices \o <<"\"", ":", "[", "]", "}">>,
      <<"{", "}">>,
      <<"[", "]">>,
      <<"<", "h", "t", "m", "l", ">">> }

\* the seconds a server takes to answer: fewer than both timeouts, between
\* the two, and more than both
Latencies == { TestRequestTimeout \div 2, RequestTimeout \div 2, RequestTimeout + 30 }

\* what a server may do with a request: answer with a response after some
\* time, or make requests.post raise
PostOutcomes ==
    [error : {""}, status_code : {200, 401, 500}, text : ResponseBodies,
     elapsed : Latencies, timeout : {0}]
    \cup [error : {"ConnectionError"}, status_code : {0}, text : {<<>>},
          elapsed : {0}, timeout : {0}]

\* requests.post on an empty URL raises before anything is sent
PostOutcomesFor(config) ==
    IF config.api_url = ""
    THEN [error : {"MissingSchema"}, status_code : {0}, text : {<<>>},
          elapsed : {0}, timeout : {0}]
    ELSE PostOutcomes

InitConnector ==
    /\ api_config \in ApiConfigs
    /\ callResult = NoCall
    /\ content = <<>>
    /\ parseResult = NotCalled
    /\ InitDoc
    /\ request = NoRequest
    /\ FontUnused

ValidateConfigCall ==
    /\ callResult.op = "none"
    /\ \E answer \in PostOutcomesFor(api_config) :
            callResult' = ValidateConfig(api_config, answer)
    /\ UNCHANGED <<content, parseResult, api_config>>
    /\ UNCHANGED <<docVars, fontVars>>

SendRequestCall ==
    /\ callResult.op # "send_request"
    /\ \E answer \in PostOutcomesFor(api_config) : callResult' = SendRequest(answer)
    /\ UNCHANGED <<content, parseResult, api_config>>
    /\ UNCHANGED <<docVars, fontVars>>

\* parse_response on the response send_request returned
ParseReturnedCall ==
    /\ callResult.op = "send_request" /\ callResult.ok
    /\ parseResult = NotCalled
    /\ parseResult' = ParseResponseOf(callResult.value)
    /\ content' = LET extracted == ExtractContent(callResult.value) IN
                  IF ~extracted.raised /\ extracted.content.k = "str"
                  THEN extracted.content.s ELSE <<>>
    /\ UNCHANGED <<api_config, callResult>>
    /\ UNCHANGED <<docVars, fontVars>>

NextConnector == ValidateConfigCall \/ SendRequestCall \/ ParseReturnedCall

SpecConnector == InitConnector /\ [][NextConnector]_vars

(***************************************************************************)
(* The instruction sets apply_formatting is given.                         *)
(***************************************************************************)
\* "黑体"
S_HeiTi == <<"z", "h", "_", "H", "e", "i", "T", "i">>

Elem(pairs) == JDict(pairs)
\* a title: font, named size, centred
E_Title ==
    Elem(<<Pair(K_type, JStr(S_BiaoTi)), Pair(K_content, JStr(<<"T">>)),
           Pair(K_format, JDict(<<Pair(K_font, JStr(S_HeiTi)),
                                  Pair(K_size, JStr(<<"X", "2">>)),
                                  Pair(K_alignment, JStr(S_center))>>))>>)
\* a body paragraph: font, named size, line spacing 1.5
E_Body ==
    Elem(<<Pair(K_type, JStr(S_ZhengWen)), Pair(K_content, JStr(<<"b">>)),
           Pair(K_format, JDict(<<Pair(K_font, JStr(S_SongTi)),
                                  Pair(K_size, JStr(S_WuHao)),
                                  Pair(K_line_spacing, JNum(15))>>))>>)
\* no type and an empty format
E_Bare == Elem(<<Pair(K_content, JStr(<<"c">>)), Pair(K_format, JDict(<<>>))>>)
\* numeric size, explicit indent and spacing, right-aligned
E_Spaced ==
    Elem(<<Pair(K_type, JStr(S_BiaoTi)), Pair(K_content, JStr(<<"s">>)),
           Pair(K_format, JDict(<<Pair(K_size, JNum(120)),
                                  Pair(K_alignment, JStr(S_right)),
                                  Pair(K_first_line_indent, JNum(100)),
                                  Pair(K_line_spacing, JNum(200))>>))>>)
\* a format that is not a mapping
E_FormatNotDict ==
    Elem(<<Pair(K_type, JStr(S_ZhengWen)), Pair(K_content, JStr(<<"d">>)),
           Pair(K_format, JStr(<<"x">>))>>)
\* a format whose size is a nested object
E_SizeNested ==
    Elem(<<Pair(K_type, JStr(S_BiaoTi)), Pair(K_content, JStr(<<"e">>)),
           Pair(K_format, JDict(<<Pair(K_size, JDict(<<>>)),
                                  Pair(K_alignment, JStr(S_justify))>>))>>)
\* a content that cannot be sliced: content[:50] raises
E_ContentNull == Elem(<<Pair(K_content, JNull), Pair(K_format, JDict(<<>>))>>)
\* a content that can be sliced and that add_run refuses
E_ContentList ==
    Elem(<<Pair(K_content, JList(<<JNum(10)>>)), Pair(K_format, JDict(<<>>))>>)
\* an element that is not a mapping
E_NotDict == JStr(<<"n">>)

WellFormedElems == { E_Title, E_Body, E_Bare, E_Spaced }
MalformedFormatElems == { E_FormatNotDict, E_SizeNested }
RaisingElems == { E_ContentNull, E_ContentList }
DocElems == WellFormedElems \cup MalformedFormatElems \cup RaisingElems \cup { E_NotDict }

Instructions ==
    { JDict(<<Pair(K_elements, JList(es))>>) : es \in SeqsUpTo(DocElems, MaxElems) }
    \cup { JList(<<>>), JDict(<<Pair(K_elements, JStr(<<"n", "o">>))>>), JDict(<<>>) }

Requests ==
    [instructions : Instructions, custom_save_path : {"None"} \cup CustomDirs]

\* the instruction sets of a run that makes several calls
LifecycleRequests ==
    [instructions : { JDict(<<Pair(K_elements, JList(<<E_Title, E_Body>>))>>),
                      JDict(<<Pair(K_elements, JStr(<<"n", "o">>))>>),
                      JList(<<>>) },
     custom_save_path : {"None"} \cup CustomDirs]

(***************************************************************************)
(* One apply_formatting call on every instruction set: a processor is      *)
(* constructed, documents are read, and the instruction set is applied     *)
(* once.                                                                   *)
(***************************************************************************)
InitRender ==
    /\ InitDoc
    /\ request \in Requests
    /\ content = <<>>
    /\ parseResult = NotCalled
    /\ ConnectorUnused
    /\ FontUnused

ReadBeforeApply ==
    /\ ~applyResult.called
    /\ \E file_path \in SourceFiles \cup InvalidFiles : \E outcome \in ReadOutcomes :
            ReadDocument(file_path, outcome)

ApplyOnce ==
    /\ ~applyResult.called
    /\ \E env \in ApplyEnvs :
            ApplyFormatting(request.instructions, request.custom_save_path, env)

NextRender == ReadBeforeApply \/ ApplyOnce

SpecRender == InitRender /\ [][NextRender]_vars

(***************************************************************************)
(* DocProcessor over its lifetime: documents are read and the instruction  *)
(* set of the run is applied, any number of times in any order.            *)
(***************************************************************************)
InitDocProcessor ==
    /\ InitDoc
    /\ request \in LifecycleRequests
    /\ content = <<>>
    /\ parseResult = NotCalled
    /\ ConnectorUnused
    /\ FontUnused

\* the files of a run that makes several calls
LifecycleFiles == { Path("in", "a", ".docx"), Path("in", "b", ".docx") } \cup InvalidFiles

ReadDocumentCall ==
    \E file_path \in LifecycleFiles : \E outcome \in ReadOutcomes :
        ReadDocument(file_path, outcome)

\* the caller takes other arguments for its next apply_formatting call
NextRequest ==
    /\ request' \in LifecycleRequests
    /\ request' # request
    /\ UNCHANGED <<document, input_file, output_file, paragraphs_text, readResult,
                   applyResult, written>>
    /\ UNCHANGED <<parseVars, fontVars>>

ApplyFormattingCall ==
    \E env \in ApplyEnvs :
        ApplyFormatting(request.instructions, request.custom_save_path, env)

NextDoc == ReadDocumentCall \/ ApplyFormattingCall \/ NextRequest

SpecDoc == InitDocProcessor /\ [][NextDoc]_vars

(***************************************************************************)
(* One element of every format: a processor is constructed, documents are  *)
(* read, and an instruction set of one element is applied once.            *)
(***************************************************************************)
\* a field that is absent, or present with one of the values
Opt(values) == {<<>>} \cup {<<v>> : v \in values}
\* the pairs with the field added when it is present
WithField(pairs, key, opt) ==
    IF opt = <<>> THEN pairs ELSE Append(pairs, Pair(key, opt[1]))

\* line_spacing: numbers below, on, between and above the limits 0.5 and
\* 36.0 (in tenths), and values that are not numbers
LineSpacingNumbers == { 0 - 10, 0, 4, 5, 7, 10, 15, 20, 120, 360, 361, 1000 }
LineSpacingValues ==
    { JNum(n) : n \in LineSpacingNumbers }
    \cup { JStr(<<"x">>), JNull, JBool(TRUE), JBool(FALSE), JDict(<<>>) }
\* first_line_indent
IndentValues ==
    { JNull, JNum(0), JNum(100), JNum(215), JStr(<<"x">>), JBool(TRUE), JList(<<>>) }
\* type: the body role, the title role, another role, and null
TypeValues == { JStr(S_ZhengWen), JStr(S_BiaoTi), JStr(<<"x">>), JNull }
\* size: the named tokens, an unknown token, numbers, and other types
SizeValues ==
    { JStr(name) : name \in FontSizeNames }
    \cup { JStr(<<"x">>), JNum(120), JNum(105), JNull, JDict(<<>>) }
FontValues == { JStr(S_HeiTi), JStr(S_SongTi) }
AlignmentValues == { JStr(S_center), JStr(<<"x">>), JNum(10) }
SpacingValues == { JNum(60), JStr(<<"x">>), JNull }

\* the element with the given type and format fields, each absent or present
FormatElem(type, fields) ==
    Elem(WithField(<<Pair(K_content, JStr(<<"p">>)), Pair(K_format, JDict(fields))>>,
                   K_type, type))

\* elements that vary the type, the line spacing and the indent
ParagraphFormatElems ==
    { FormatElem(type, WithField(WithField(<<>>, K_line_spacing, ls),
                                 K_first_line_indent, fi)) :
        type \in Opt(TypeValues), ls \in Opt(LineSpacingValues), fi \in Opt(IndentValues) }
\* elements that vary the size, the font, the weight and the alignment
RunFormatElems ==
    { FormatElem(<<JStr(S_BiaoTi)>>,
                 WithField(WithField(WithField(WithField(<<>>, K_font, font),
                                               K_size, size), K_bold, bold),
                           K_alignment, alignment)) :
        font \in Opt(FontValues), size \in Opt(SizeValues),
        bold \in Opt({JBool(TRUE)}), alignment \in Opt(AlignmentValues) }
\* elements that vary the spacing before and after, with a line spacing of
\* the wrong type or none
SpacingFormatElems ==
    { FormatElem(<<>>,
                 WithField(WithField(WithField(<<>>, K_line_spacing, ls),
                                     K_before_spacing, before),
                           K_after_spacing, after)) :
        ls \in Opt({JStr(<<"x">>)}), before \in Opt(SpacingValues),
        after \in Opt(SpacingValues) }

FormatElems == ParagraphFormatElems \cup RunFormatElems \cup SpacingFormatElems

FormatRequests ==
    [instructions : { JDict(<<Pair(K_elements, JList(<<e>>))>>) : e \in FormatElems },
     custom_save_path : {"None"}]

InitFormat ==
    /\ InitDoc
    /\ request \in FormatRequests
    /\ content = <<>>
    /\ parseResult = NotCalled
    /\ ConnectorUnused
    /\ FontUnused

SpecFormat == InitFormat /\ [][NextRender]_vars

(***************************************************************************)
(* End to end: the content of a model response is parsed, the instruction  *)
(* set it holds is handed to a processor that has read a document, and is  *)
(* applied once.                                                           *)
(***************************************************************************)
\* the two-element response: a title and a body paragraph
ModelResponse == Dumps(JDict(<<Pair(K_elements, JList(<<E_Title, E_Body>>))>>))

\* the contents: the response, bare and inside prose, and other payloads
EndToEndContents ==
    { np[1] \o ModelResponse \o np[2] : np \in NoisePairs }
    \cup { Dumps(JDict(<<Pair(K_elements, JList(<<>>))>>)),
           Dumps(JDict(<<Pair(K_elements, JList(<<E_Body, E_Title>>))>>)),
           Dumps(JDict(<<Pair(K_elements, JList(<<E_Bare>>))>>)) }

InitEndToEnd ==
    /\ content \in EndToEndContents
    /\ parseResult = NotCalled
    /\ ConnectorUnused
    /\ InitDoc
    /\ request = NoRequest
    /\ FontUnused

\* the caller hands the parsed instruction set to apply_formatting
TakeInstructions ==
    /\ parseResult.ok
    /\ request = NoRequest
    /\ request' = [instructions |-> parseResult.value, custom_save_path |-> "None"]
    /\ UNCHANGED <<document, input_file, output_file, paragraphs_text, readResult,
                   applyResult, written>>
    /\ UNCHANGED <<parseVars, fontVars>>

ApplyParsed ==
    /\ request # NoRequest
    /\ ApplyOnce

NextEndToEnd ==
    ParseResponseCall \/ TakeInstructions \/ ReadBeforeApply \/ ApplyParsed

SpecEndToEnd == InitEndToEnd /\ [][NextEndToEnd]_vars

(***************************************************************************)
(* Font resolution on every inventory: the manager holds an inventory and  *)
(* an alias table, and a name is queried.                                  *)
(***************************************************************************)
\* the names an inventory may hold
InstallableFonts == { "SimSun", "Arial", "zh_SongTi", "Microsoft YaHei UI", "Other" }
\* the inventories: lists without repetition
Inventories ==
    { fonts \in SeqsUpTo(InstallableFonts, MaxFonts) :
        \A i, j \in 1..Len(fonts) : i # j => fonts[i] # fonts[j] }
\* the alias tables: the static one, and one extended by add_font_mapping
AliasTables ==
    { StaticFontMapping, WithMapping(StaticFontMapping, "Custom", "Other") }
\* the names asked for, and the fallbacks given
RequestedFonts == { "zh_SongTi", "SimSun", "zh_WeiRuanYaHei UI", "Arial", "Custom", "Unknown" }
Fallbacks == { "SimSun", "Arial" }

InitFont ==
    /\ system_fonts \in Inventories
    /\ font_mapping \in AliasTables
    /\ fontQuery \in [font_name : RequestedFonts, fallback : Fallbacks]
    /\ fontResult = NotAsked
    /\ mapping_order = IF "Custom" \in DOMAIN font_mapping
                       THEN KeyOrderWith(StaticMappingOrder, "Custom")
                       ELSE StaticMappingOrder
    /\ reverse_mapping = ReverseMapping(font_mapping, mapping_order)
    /\ mapping_file = NoFile
    /\ manager = [NotConstructed EXCEPT !.instances = 1, !.initialized = TRUE,
                                        !.loads = 1, !.constructions = 1]
    /\ host = NoHost
    /\ InitDoc
    /\ request = NoRequest
    /\ content = <<>>
    /\ parseResult = NotCalled
    /\ ConnectorUnused

IsFontAvailableCall ==
    /\ manager.initialized
    /\ fontResult.op # "is_font_available"
    /\ fontResult' =
        [op |-> "is_font_available",
         args |-> <<fontQuery.font_name>>,
         result |-> FlagReturn(IsFontAvailable(system_fonts, font_mapping,
                                               fontQuery.font_name))]
    /\ UNCHANGED <<system_fonts, font_mapping, fontQuery, managerVars>>
    /\ UNCHANGED <<parseVars, docVars>>

GetAvailableFontCall ==
    /\ manager.initialized
    /\ fontResult.op # "get_available_font"
    /\ fontResult' =
        [op |-> "get_available_font",
         args |-> <<fontQuery.font_name, fontQuery.fallback>>,
         result |-> GetAvailableFont(system_fonts, font_mapping,
                                     fontQuery.font_name, fontQuery.fallback)]
    /\ UNCHANGED <<system_fonts, font_mapping, fontQuery, managerVars>>
    /\ UNCHANGED <<parseVars, docVars>>

NextFont == IsFontAvailableCall \/ GetAvailableFontCall

SpecFont == InitFont /\ [][NextFont]_vars

(***************************************************************************)
(* Font enumeration on every machine: the first FontManager() of a process *)
(* runs load_system_fonts, later ones do not.                              *)
(***************************************************************************)
\* the FontManager() calls of a run
MaxConstructions == 2

\* names that stand for the other fonts of a machine
Fillers == <<"F1", "F2", "F3", "F4", "F5", "F6", "F7", "F8", "F9", "F10", "F11">>
Fill(n) == SubSeq(Fillers, 1, n)
Answer(fonts) == [raises |-> FALSE, fonts |-> fonts]
Raises == [raises |-> TRUE, fonts |-> <<>>]

\* what QFontDatabase.families() answers: lists on both sides of
\* SmallInventory, with and without vertical variants and basic fonts
FamilyAnswers ==
    { Raises, Answer(<<>>), Answer(<<"@SimSun">>), Answer(<<"zh_SongTi">>),
      Answer(Fill(SmallInventory - 7)),
      Answer(Fill(SmallInventory - 1)),
      Answer(<<"SimSun", "SimHei", "Arial">> \o Fill(SmallInventory - 4)),
      Answer(Fill(SmallInventory - 2) \o <<"@SimSun", "@SimHei">>),
      Answer(Fill(SmallInventory)) }
\* what fc-list and system_profiler answer
AlternateAnswers ==
    { Raises, Answer(<<>>), Answer(Fill(SmallInventory - 5)),
      Answer(Fill(SmallInventory + 1)) }
Hosts ==
    [families : FamilyAnswers, system : { "Darwin", "Linux", "Windows" },
     fc_list : AlternateAnswers, system_profiler : AlternateAnswers]

\* a process that has not constructed its manager
InitManagerOn(hosts, files) ==
    /\ system_fonts = <<>>
    /\ font_mapping = EmptyMapping
    /\ reverse_mapping = EmptyMapping
    /\ mapping_order = <<>>
    /\ mapping_file \in files
    /\ manager = NotConstructed
    /\ host \in hosts
    /\ fontResult = NotAsked
    /\ InitDoc
    /\ request = NoRequest
    /\ content = <<>>
    /\ parseResult = NotCalled
    /\ ConnectorUnused

InitEnumerate ==
    /\ InitManagerOn(Hosts, {NoFile})
    /\ fontQuery = NoQuery

FontManagerCall ==
    /\ manager.constructions < MaxConstructions
    /\ FontManagerInit

NextEnumerate == FontManagerCall

SpecEnumerate == InitEnumerate /\ [][NextEnumerate]_vars

(***************************************************************************)
(* The manager over the lifetime of a process: it is constructed, queried, *)
(* and aliases are added and reloaded, in any order.                       *)
(***************************************************************************)
\* the add_font_mapping calls of a run
MaxAdds == 2

\* a machine with no font to enumerate, and one with many
ManagerHosts ==
    { [NoHost EXCEPT !.system = "Linux"],
      [NoHost EXCEPT !.system = "Windows", !.families = Answer(Fill(SmallInventory))] }
\* the mapping files a process starts with: none, one that does not
\* decode, and one that holds an alias
ManagerFiles ==
    { NoFile, UndecodableFile,
      DumpedFile([label \in {"Custom"} |-> "Other"], <<"Custom">>) }
\* the aliases added: a new label and one of the static table, for a new
\* name and one of the static table
AddedLabels == { "Custom", "zh_SongTi" }
AddedNames == { "Other", "SimSun" }
\* the names whose display name is asked for
DisplayedFonts == { "SimSun", "Other" }

InitManager ==
    /\ InitManagerOn(ManagerHosts, ManagerFiles)
    /\ fontQuery = [font_name |-> "Custom", fallback |-> "SimSun"]

AddFontMappingCall ==
    /\ manager.initialized
    /\ manager.adds < MaxAdds
    /\ \E chinese_name \in AddedLabels : \E english_name \in AddedNames :
       \E outcome \in WriteOutcomes :
            AddFontMapping(chinese_name, english_name, outcome)

LoadFontMappingCall ==
    /\ manager.initialized
    /\ ReloadFontMapping

GetFontDisplayNameCall ==
    /\ manager.initialized
    /\ \E font_name \in DisplayedFonts :
        fontResult' = [op |-> "get_font_display_name", args |-> <<font_name>>,
                       result |-> GetFontDisplayName(reverse_mapping, font_name)]
    /\ UNCHANGED <<system_fonts, font_mapping, fontQuery, managerVars>>
    /\ UNCHANGED <<parseVars, docVars>>

\* get_all_fonts() and get_font_mapping(): the attribute is returned
GetterCall ==
    /\ manager.initialized
    /\ \/ fontResult' = [op |-> "get_all_fonts", args |-> <<>>,
                         result |-> [FontReturn("") EXCEPT !.value = system_fonts]]
       \/ fontResult' = [op |-> "get_font_mapping", args |-> <<>>,
                         result |-> [FontReturn("") EXCEPT !.value = font_mapping]]
    /\ UNCHANGED <<system_fonts, font_mapping, fontQuery, managerVars>>
    /\ UNCHANGED <<parseVars, docVars>>

NextManager ==
    \/ FontManagerCall
    \/ AddFontMappingCall
    \/ LoadFontMappingCall
    \/ IsFontAvailableCall
    \/ GetAvailableFontCall
    \/ GetFontDisplayNameCall
    \/ GetterCall

SpecManager == InitManager /\ [][NextManager]_vars

(***************************************************************************)
(* The whole program: a run of any of the parts above.                      *)
(***************************************************************************)
Init ==
    \/ InitParse \/ InitConnector \/ InitRender \/ InitFormat \/ InitEndToEnd
    \/ InitDocProcessor \/ InitFont \/ InitEnumerate \/ InitManager

Next ==
    \/ NextParse \/ NextConnector \/ NextRender \/ NextEndToEnd \/ NextDoc \/ NextFont
    \/ NextEnumerate \/ NextManager

Spec == Init /\ [][Next]_vars

(***************************************************************************)
(* Properties of parse_response, checked under SpecParse.                  *)
(***************************************************************************)
Called == parseResult.kind # "NotCalled"

\* where the braces of the text are, stated without the search loops
OpenBraces(text) == {i \in 1..Len(text) : text[i] = "{"}
CloseBraces(text) == {i \in 1..Len(text) : text[i] = "}"}
FirstOpen(text) == CHOOSE i \in OpenBraces(text) : \A j \in OpenBraces(text) : i <= j
LastClose(text) == CHOOSE i \in CloseBraces(text) : \A j \in CloseBraces(text) : j <= i
HasBothBraces(text) == OpenBraces(text) # {} /\ CloseBraces(text) # {}
\* the text from the first '{' to the last '}'
BraceSpan(text) == SubSeq(text, FirstOpen(text), LastClose(text))

\* the payload decoded from the text's brace span
DecodesToPayload(text) == HasBothBraces(text) /\ JsonLoads(BraceSpan(text)).ok
PayloadOf(text) == JsonLoads(BraceSpan(text)).val
ElementsIsList(p) == HasKey(p, K_elements) /\ Get(p, K_elements, JNull).k = "list"

\* C4: parse_response succeeds only on a payload whose "elements" is present
\* and a list; every other payload (no "elements", or a map, string, number,
\* boolean or null under it) is rejected with WrongShape.
C4_ElementsMustBeAList ==
    (Called /\ DecodesToPayload(content) /\ ~ElementsIsList(PayloadOf(content)))
        => (~parseResult.ok /\ parseResult.kind = "WrongShape")

\* C5: a successful parse returns only elements that are mappings with
\* "content" and "format" both present and not null.
NonNullField(elem, key) == HasKey(elem, key) /\ Get(elem, key, JNull).k # "null"
C5_ElementsHaveNonNullFields ==
    (Called /\ parseResult.ok) =>
        LET elements == Get(parseResult.value, K_elements, JList(<<>>)).items IN
        \A i \in 1..Len(elements) :
            /\ elements[i].k = "dict"
            /\ NonNullField(elements[i], K_content)
            /\ NonNullField(elements[i], K_format)

\* C6: a non-empty text with no '{' or with no '}' fails with NoPayloadFound.
C6_NoBraceNoPayload ==
    (Called /\ content # <<>> /\ ~HasBothBraces(content))
        => (~parseResult.ok /\ parseResult.kind = "NoPayloadFound"
            /\ parseResult.span = <<>>)

\* C6 witness: a text with an opening brace and no closing one was refused
\* with NoPayloadFound.
C6_Witness ==
    /\ Called
    /\ OpenBraces(content) # {} /\ CloseBraces(content) = {}
    /\ parseResult.kind = "NoPayloadFound"

\* C7: brace-free text around a payload P that starts with '{' and ends with
\* '}' does not change the result: parsing prefix + P + suffix returns the
\* pair that parsing P alone returns.
BraceFree(text) == OpenBraces(text) = {} /\ CloseBraces(text) = {}
C7_NoiseIgnored ==
    Called =>
        \A a \in 1..Len(content) : \A b \in a..Len(content) :
            ( /\ content[a] = "{" /\ content[b] = "}"
              /\ BraceFree(SubSeq(content, 1, a - 1))
              /\ BraceFree(SubSeq(content, b + 1, Len(content))) )
            => parseResult = ParseResponse(SubSeq(content, a, b))

\* C7 witness: a payload with prose before and after it was parsed with
\* success.
C7_Witness ==
    /\ Called /\ parseResult.ok
    /\ Len(content) > 2
    /\ content[1] = "x" /\ content[Len(content)] = "x"
    /\ Len(Get(parseResult.value, K_elements, JList(<<>>)).items) > 0

\* C8: the span is the text from the first '{' to the last '}'; when it does
\* not decode the call fails with MalformedPayload quoting the first
\* DiagLimit characters of that span, and a success returns what that span
\* decodes to and nothing else.
C8_SpanIsFirstToLast ==
    (Called /\ HasBothBraces(content)) =>
        IF JsonLoads(BraceSpan(content)).ok
        THEN parseResult.ok => parseResult.value = PayloadOf(content)
        ELSE /\ ~parseResult.ok
             /\ parseResult.kind = "MalformedPayload"
             /\ Len(parseResult.span) <= DiagLimit
             /\ IF Len(BraceSpan(content)) <= DiagLimit
                THEN parseResult.span = BraceSpan(content)
                ELSE /\ Len(parseResult.span) = DiagLimit
                     /\ \A i \in 1..DiagLimit :
                            parseResult.span[i] = BraceSpan(content)[i]

\* C8 witness: a stray '{' in front of a payload that decodes on its own made
\* the call fail with MalformedPayload.
C8_Witness ==
    /\ Called
    /\ Len(content) > 2 /\ content[1] = "{"
    /\ JsonLoads(Tail(content)).ok
    /\ parseResult.kind = "MalformedPayload"

(***************************************************************************)
(* Properties of apply_formatting's rendering, checked under SpecRender.   *)
(***************************************************************************)
\* the call reached the loop over the elements
Rendered == applyResult.called /\ Len(applyResult.steps) >= 3
\* the call saved the new document
Saved == Rendered /\ applyResult.steps[Len(applyResult.steps)] = "save"
\* the elements of the instruction set applied
Elems == ElementsOf(request.instructions).items
NewDoc == applyResult.new_doc
ContentOf(e) == Get(e, K_content, JNull)

\* a mapping with a string content and a mapping format
WellFormedElement(e) ==
    /\ e.k = "dict"
    /\ HasKey(e, K_content) /\ ContentOf(e).k = "str"
    /\ HasKey(e, K_format) /\ Get(e, K_format, JNull).k = "dict"

\* C1: an instruction set of N well-formed elements gives a new document of
\* exactly N paragraphs, the i-th carrying the i-th content, whatever format
\* fields the elements have; the empty set gives an empty document, saved
\* with success.
C1_OneParagraphPerElement ==
    (Rendered /\ \A i \in 1..Len(Elems) : WellFormedElement(Elems[i])) =>
        /\ Len(NewDoc) = Len(Elems)
        /\ \A i \in 1..Len(Elems) : NewDoc[i].text = ContentOf(Elems[i]).s
        /\ Saved => /\ applyResult.ret
                    /\ [path |-> output_file, doc |-> NewDoc] \in written
        /\ Len(Elems) = 0 => NewDoc = <<>>

\* C1 witness: two well-formed elements, one with font, size and alignment
\* and one with an empty format, were rendered and saved.
C1_Witness ==
    /\ Saved /\ applyResult.ret
    /\ Elems = <<E_Title, E_Bare>>
    /\ Len(NewDoc) = 2

\* the elements whose rendering raises, and those rendered to the end
RaisesWhenRendered(e) == e \in RaisingElems
RenderedToTheEnd(e) == e \in WellFormedElems \cup MalformedFormatElems
HasText(para) == para.text # <<>>

RECURSIVE TextsOf(_, _)
TextsOf(paras, i) ==
    IF i > Len(paras) THEN <<>> ELSE <<paras[i].text>> \o TextsOf(paras, i + 1)
RECURSIVE ContentsOf(_, _)
ContentsOf(elems, i) ==
    IF i > Len(elems) THEN <<>> ELSE <<ContentOf(elems[i]).s>> \o ContentsOf(elems, i + 1)

\* C2: an element whose rendering raises stops nothing: the elements after
\* it are rendered, in order, and the call returns success whenever the
\* save succeeds.
C2_FailureIsolated ==
    Rendered =>
        /\ TextsOf(SelectSeq(NewDoc, HasText), 1)
               = ContentsOf(SelectSeq(Elems, RenderedToTheEnd), 1)
        /\ Saved => applyResult.ret

\* C2 witness: the first element raised, the second was rendered, and the
\* call returned success.
C2_Witness ==
    /\ Saved /\ applyResult.ret
    /\ Len(Elems) = 2
    /\ RaisesWhenRendered(Elems[1]) /\ Elems[2] \in WellFormedElems
    /\ NewDoc[Len(NewDoc)].text = ContentOf(Elems[2]).s

\* exactly one element has a malformed format and the others are well formed
OneMalformedFormat ==
    /\ Cardinality({i \in 1..Len(Elems) : Elems[i] \in MalformedFormatElems}) = 1
    /\ \A i \in 1..Len(Elems) : Elems[i] \in MalformedFormatElems \cup WellFormedElems

AlignmentAskedFor(e) ==
    LET f == Get(e, K_format, JNull)
        a == IF f.k = "dict" THEN Get(f, K_alignment, JStr(S_left)) ELSE JStr(S_left)
    IN  CASE a = JStr(S_center) -> "CENTER" [] a = JStr(S_right) -> "RIGHT"
          [] a = JStr(S_justify) -> "JUSTIFY" [] OTHER -> "LEFT"

Resolved == fontResult.op = "get_available_font"
InventorySet == {system_fonts[i] : i \in 1..Len(system_fonts)}

\* C9: get_available_font returns a name, and not the empty one, for every
\* requested name, inventory (the empty one too) and alias table; it never
\* raises.
C9_ResolutionIsTotal ==
    Resolved => (~fontResult.result.raised /\ fontResult.result.value # "")

\* C9 witness: on an empty inventory the query returned the literal.
C9_Witness ==
    /\ Resolved
    /\ system_fonts = <<>>
    /\ fontResult.result = FontReturn("Arial")

\* the alias of a name, "" when it has none
AliasOf(name) == IF name \in DOMAIN font_mapping THEN font_mapping[name] ELSE ""

\* C10: the five steps in order: the requested name when installed, else its
\* alias when installed, else the fallback when installed, else the first
\* installed font, else the literal; on a non-empty inventory the name
\* returned is installed.
C10_FiveStepOrder ==
    Resolved =>
        LET name == fontQuery.font_name
            value == fontResult.result.value
        IN  /\ ~fontResult.result.raised
            /\ IF name \in InventorySet THEN value = name
               ELSE IF AliasOf(name) # "" /\ AliasOf(name) \in InventorySet
               THEN value = AliasOf(name)
               ELSE IF fontQuery.fallback \in InventorySet
               THEN value = fontQuery.fallback
               ELSE IF system_fonts # <<>> THEN value = system_fonts[1]
               ELSE value = "Arial"
            /\ system_fonts # <<>> => value \in InventorySet

(***************************************************************************)
(* Properties of the format of one element, checked under SpecFormat.      *)
(***************************************************************************)
\* the element applied and its paragraph, when it was rendered
TheElem == Elems[1]
ThePara == NewDoc[1]
TheFormat == Get(TheElem, K_format, JDict(<<>>))
RenderedOne == Rendered /\ Len(Elems) = 1 /\ Len(NewDoc) = 1
\* the field is present and a JSON number
NumericField(key) == HasKey(TheFormat, key) /\ Get(TheFormat, key, JNull).k = "num"
FieldNum(key) == Get(TheFormat, key, JNull).n

\* C11: a numeric line_spacing v gives one-and-a-half when v < 0.5 or
\* v > 36.0, single for 1.0, one-and-a-half for 1.5, double for 2.0, and
\* otherwise exact spacing of v points; 0.5 and 36.0 themselves are applied.
C11_LineSpacingOfANumber ==
    (RenderedOne /\ NumericField(K_line_spacing)) =>
        LET v == FieldNum(K_line_spacing) IN
        IF v < 5 \/ v > 360
        THEN ThePara.line_spacing_rule = <<"ONE_POINT_FIVE">> /\ ThePara.line_spacing = <<>>
        ELSE IF v = 10
        THEN ThePara.line_spacing_rule = <<"SINGLE">> /\ ThePara.line_spacing = <<>>
        ELSE IF v = 15
        THEN ThePara.line_spacing_rule = <<"ONE_POINT_FIVE">> /\ ThePara.line_spacing = <<>>
        ELSE IF v = 20
        THEN ThePara.line_spacing_rule = <<"DOUBLE">> /\ ThePara.line_spacing = <<>>
        ELSE ThePara.line_spacing_rule = <<"EXACTLY">> /\ ThePara.line_spacing = <<v>>

\* C11 witness: the upper limit 36.0 itself was applied as exact spacing.
C11_Witness ==
    /\ RenderedOne /\ NumericField(K_line_spacing)
    /\ FieldNum(K_line_spacing) = 360
    /\ ThePara.line_spacing = <<360>>

\* the size a points value stands for on a run
PointSize(tenths) == [unit |-> "pt", v |-> tenths, raw |-> JNull]
\* the size asked for: the token "五号" when none is given
SizeAskedFor(format_info) == Get(format_info, K_size, JStr(S_WuHao))
\* the size the run is to have, for a size that is a string or a number
ExpectedSize(size) ==
    IF size.k = "str"
    THEN IF size.s \in FontSizeNames THEN PointSize(FontSizeMapping(size.s))
         ELSE PointSize(105)
    ELSE PointSize(size.n)

\* C12: after an element is rendered its run has the size of the table for
\* a named token, 10.5 pt for an unknown token or no size, and the given
\* number of points for a numeric size.
C12_RunFontSize ==
    (RenderedOne /\ SizeAskedFor(TheFormat).k \in {"str", "num"}) =>
        ThePara.size = <<ExpectedSize(SizeAskedFor(TheFormat))>>

(***************************************************************************)
(* Properties of the whole pipeline, checked under SpecEndToEnd.           *)
(***************************************************************************)
\* the two-element response was parsed and applied
ModelResponseApplied ==
    /\ Rendered
    /\ content = ModelResponse
    /\ request.instructions = parseResult.value

\* C13: parsing the two-element response and applying it gives two
\* paragraphs: the first centred with an 18 pt run in the font "黑体", the
\* second with a 10.5 pt run, a 21 pt first-line indent and one-and-a-half
\* line spacing.
C13_EndToEnd ==
    ModelResponseApplied =>
        /\ Len(NewDoc) = 2
        /\ NewDoc[1].alignment = <<"CENTER">>
        /\ NewDoc[1].size = <<PointSize(180)>>
        /\ NewDoc[1].font_name = <<S_HeiTi>>
        /\ NewDoc[2].size = <<PointSize(105)>>
        /\ NewDoc[2].first_line_indent = <<210>>
        /\ NewDoc[2].line_spacing_rule = <<"ONE_POINT_FIVE">>

(***************************************************************************)
(* Properties of the connector, checked under SpecConnector.               *)
(***************************************************************************)
\* a request was sent in the last call, and what came back
Sent == callResult.op \in {"validate_config", "send_request"} /\ callResult.post # NoPost
Post == callResult.post
Got200 == Post.error = "" /\ Post.status_code = 200
GotOtherStatus == Post.error = "" /\ Post.status_code # 200
Undecodable == Post.error = "" /\ ~JsonLoads(Post.text).ok

\* no call raises, success needs a 200 response, and a response with
\* another status, or an exception of the request, is a failure; the
\* message for another status carries the status code and the body
FailuresAreReported ==
    /\ ~callResult.raised
    /\ parseResult.ok \in BOOLEAN
    /\ (parseResult # NotCalled /\ ExtractContent(callResult.value).raised) =>
            (~parseResult.ok /\ parseResult.kind = "Exception")
    /\ callResult.ok => (Sent /\ Got200)
    /\ (Sent /\ ~Got200) => ~callResult.ok
    /\ (Sent /\ GotOtherStatus) =>
            /\ callResult.kind = "Status"
            /\ callResult.status_code = Post.status_code
            /\ callResult.text = Post.text

\* C14 as stated: send_request, validate_config and parse_response never
\* raise; success is returned only for a 200 response; another status, a
\* timeout, a connection failure and an undecodable body all give a
\* failure, in send_request and in validate_config alike.
C14_EveryFailureReported ==
    /\ FailuresAreReported
    /\ (Sent /\ Undecodable) => ~callResult.ok

\* C14 as amended: the same, but only send_request decodes the body:
\* validate_config looks at the status alone and returns success for every
\* 200 response.
C14_FailuresReportedBodyDecodedBySend ==
    /\ FailuresAreReported
    /\ (Sent /\ Undecodable /\ callResult.op = "send_request") => ~callResult.ok
    /\ (Sent /\ Got200 /\ callResult.op = "validate_config") => callResult.ok

\* C14 witness: send_request met a 200 response whose body is not JSON and
\* returned a failure.
C14_Witness ==
    /\ callResult.op = "send_request"
    /\ Got200 /\ Undecodable
    /\ ~callResult.raised /\ ~callResult.ok

(***************************************************************************)
(* Properties of the files apply_formatting touches, checked under         *)
(* SpecRender.                                                             *)
(***************************************************************************)
\* the paths written by saves
WrittenPaths == {f.path : f \in written}

\* C15: in every run of apply_formatting the source document is never
\* written: the path the new document is saved to differs from the source
\* path, also when the output name is the fallback one.
C15_SourceNeverWritten ==
    applyResult.called =>
        /\ input_file \notin WrittenPaths
        /\ WrittenPaths \cap SourceFiles = {}
        /\ Saved => output_file # input_file

\* the call stopped at the construction of the new document, or at the save
ConstructionFailed == applyResult.called /\ applyResult.steps = <<"backup">>
SaveFailed == applyResult.called /\ applyResult.steps = <<"backup", "create", "render">>

\* C16: apply_formatting returns success exactly when the output document
\* was saved; a failure to construct the new document, to create the output
\* directory or to save gives failure, whatever the elements did.
C16_SuccessIffSaved ==
    applyResult.called =>
        /\ applyResult.ret <=>
               (Saved /\ [path |-> output_file, doc |-> NewDoc] \in written)
        /\ ConstructionFailed => (~applyResult.ret /\ written = {})
        /\ SaveFailed => (~applyResult.ret /\ written = {})

\* C16 witness: two elements were rendered to two paragraphs, the save
\* failed, and the call returned failure.
C16_Witness ==
    /\ SaveFailed
    /\ Elems = <<E_Title, E_Body>> /\ Len(NewDoc) = 2
    /\ ~applyResult.ret

(***************************************************************************)
(* Further properties of the format of one element, checked under          *)
(* SpecFormat.                                                             *)
(***************************************************************************)
\* the field is present with a value that is neither a number nor null
WrongTyped(key) ==
    HasKey(TheFormat, key) /\ Get(TheFormat, key, JNull).k \in {"str", "list", "dict"}
\* the type of the element, the body role when it has none
TypeOf(e) == Get(e, K_type, JStr(S_ZhengWen))

\* C17: a format field of the wrong type or out of range gets its default:
\* a line_spacing that is not a number gives one-and-a-half spacing, a
\* first_line_indent that is not a number gives a body element its 21 pt
\* indent, and the other fields of the element are still applied.
C17_WrongTypedFieldsGetDefaults ==
    RenderedOne =>
        /\ WrongTyped(K_line_spacing) =>
               ThePara.line_spacing_rule = <<"ONE_POINT_FIVE">>
        /\ (WrongTyped(K_first_line_indent) /\ TypeOf(TheElem) = JStr(S_ZhengWen)) =>
               ThePara.first_line_indent = <<210>>
        /\ (WrongTyped(K_line_spacing) \/ WrongTyped(K_first_line_indent)) =>
               ThePara.alignment = <<AlignmentAskedFor(TheElem)>>

\* C18: the run of a rendered element has the same font name in its default
\* slot and in its east-asian slot, and the size and the bold, italic and
\* underline flags (false when not given) are set with it.
C18_RunFontSlots ==
    RenderedOne =>
        /\ ThePara.font_name # <<>>
        /\ ThePara.east_asia = ThePara.font_name
        /\ ThePara.size # <<>>
        /\ ThePara.bold = <<Get(TheFormat, K_bold, JBool(FALSE))>>
        /\ ThePara.italic = <<Get(TheFormat, K_italic, JBool(FALSE))>>
        /\ ThePara.underline = <<Get(TheFormat, K_underline, JBool(FALSE))>>

\* the first_line_indent asked for, null when none is
IndentAskedFor == Get(TheFormat, K_first_line_indent, JNull)

\* C19: a numeric first_line_indent is applied as that many points whatever
\* the element type; with none (or null) an element of the body role, the
\* role of an element without a type, gets 21 pt; otherwise no indent is set.
C19_FirstLineIndent ==
    RenderedOne =>
        IF IsNumber(IndentAskedFor)
        THEN ThePara.first_line_indent = <<NumVal(IndentAskedFor)>>
        ELSE IF IndentAskedFor.k = "null" /\ TypeOf(TheElem) = JStr(S_ZhengWen)
        THEN ThePara.first_line_indent = <<210>>
        ELSE ThePara.first_line_indent = <<>>

\* C19 witness: an element with no type and no first_line_indent was
\* rendered with the 21 pt indent.
C19_Witness ==
    /\ RenderedOne
    /\ ~HasKey(TheElem, K_type) /\ ~HasKey(TheFormat, K_first_line_indent)
    /\ ThePara.first_line_indent = <<210>>

(***************************************************************************)
(* The order of the validation, checked under SpecParse.                   *)
(***************************************************************************)
NotAMapping(e) == e.k # "dict"
LacksContent(e) == ~HasKey(e, K_content)
LacksFormat(e) == ~HasKey(e, K_format)
\* the Python index of the first element that fails a check
FirstFailing(elems, Fails(_)) ==
    (CHOOSE i \in 1..Len(elems) :
        Fails(elems[i]) /\ \A j \in 1..(i - 1) : ~Fails(elems[j])) - 1
SomeFails(elems, Fails(_)) == \E i \in 1..Len(elems) : Fails(elems[i])

\* C20: the checks short-circuit in the order shape of "elements", mapping
\* type of every member, "content" of every member, "format" of every
\* member; the error returned is the first failing check in that order, a
\* member that is not a mapping is reported with its index, and a success
\* returns the decoded payload unchanged.
C20_ValidationOrder ==
    (Called /\ DecodesToPayload(content)) =>
        LET p == PayloadOf(content)
            elems == Get(p, K_elements, JList(<<>>)).items
        IN  IF ~ElementsIsList(p)
            THEN ~parseResult.ok /\ parseResult.kind = "WrongShape"
            ELSE IF SomeFails(elems, NotAMapping)
            THEN parseResult = ParseFailure("ElementWrongType",
                                            FirstFailing(elems, NotAMapping), "", <<>>)
            ELSE IF SomeFails(elems, LacksContent)
            THEN parseResult = ParseFailure("MissingField",
                                            FirstFailing(elems, LacksContent), "content", <<>>)
            ELSE IF SomeFails(elems, LacksFormat)
            THEN parseResult = ParseFailure("MissingField",
                                            FirstFailing(elems, LacksFormat), "format", <<>>)
            ELSE parseResult = ParseSuccess(p)


(***************************************************************************)
(* parse_response: when the span is decoded.                               *)
(***************************************************************************)
\* json.loads was called on a span: every result but the two failures that
\* are returned before line 209
DecodeAttempted == Called /\ parseResult.kind \notin { "EmptyContent", "NoPayloadFound" }
\* the last '}' of the content comes before its first '{'
CloseBeforeOpen(text) == HasBothBraces(text) /\ LastClose(text) < FirstOpen(text)

\* C21: a span is sliced and decoded only when both braces are found and
\* the first '{' precedes the last '}'; for a content whose last '}' comes
\* before its first '{' no decoding is attempted.
C21_DecodeOnlyWhenOpenPrecedesClose ==
    DecodeAttempted => (HasBothBraces(content) /\ FirstOpen(content) < LastClose(content))


(***************************************************************************)
(* apply_formatting: the backup comes first.                               *)
(***************************************************************************)
\* the collaborator calls of apply_formatting, in the order of the source
ApplySteps == <<"backup", "create", "render", "save">>
\* the call got past the early returns and backup_file raised
BackupFailed ==
    /\ applyResult.called
    /\ ~RejectedEarly(request.instructions)
    /\ applyResult.steps = <<>>

\* C22: the backup is taken before the new document is created, before any
\* element is rendered and before anything is saved; when the backup
\* raises, no output document is saved and the call returns failure.
C22_BackupPrecedesEverything ==
    applyResult.called =>
        /\ applyResult.steps = SubSeq(ApplySteps, 1, Len(applyResult.steps))
        /\ BackupFailed =>
              /\ ~applyResult.ret
              /\ applyResult.new_doc = NoDocument
              /\ written = {}
              /\ output_file = NoPath
C22_Witness == BackupFailed /\ ~applyResult.ret /\ written = {}


(***************************************************************************)
(* FontManager: one instance, one enumeration.                             *)
(***************************************************************************)
\* C23: all FontManager() calls of a process return the same instance and
\* load_system_fonts runs exactly once, at the first of them; afterwards no
\* query and no add_font_mapping call changes the installed-font inventory.
C23_OneInstanceOneLoad ==
    /\ [](/\ manager.instances <= 1
          /\ manager.constructions = 0 => (manager.instances = 0 /\ manager.loads = 0)
          /\ manager.constructions >= 1 => (manager.instances = 1 /\ manager.loads = 1))
    /\ [][manager.loads >= 1 => system_fonts' = system_fonts]_vars
C23_Witness ==
    /\ manager.constructions >= 2
    /\ manager.loads = 1
    /\ manager.adds >= 1
    /\ fontResult.op = "get_available_font"


(***************************************************************************)
(* load_system_fonts: the alternates and the basic fonts.                  *)
(***************************************************************************)
Loaded == manager.loads >= 1
\* what the primary enumeration yielded, and what the enumerations found
PrimaryFonts == IF host.families.raises THEN <<>> ELSE host.families.fonts
FoundFonts == IF host.families.raises THEN <<>> ELSE Enumerate(host).fonts
AlternateTried == Len(manager.strategies) > 1
HasBasicFonts == \A i \in 1..Len(BasicFonts) : Installed(system_fonts, BasicFonts[i])

\* C24: whenever the primary enumeration yields fewer than 10 fonts an
\* alternate enumeration is tried, its list adopted only if larger;
\* load_system_fonts always ends, an exception included, with a non-empty
\* inventory, which holds the nine basic fonts whenever fewer than 10 fonts
\* were found.
C24_AlternatesAndBasicFonts ==
    Loaded =>
        /\ (~host.families.raises /\ Len(PrimaryFonts) < SmallInventory) => AlternateTried
        /\ FoundFonts # SelectSeq(PrimaryFonts, NotVertical) =>
              Len(FoundFonts) > Len(SelectSeq(PrimaryFonts, NotVertical))
        /\ system_fonts # <<>>
        /\ Len(FoundFonts) < SmallInventory => HasBasicFonts


(***************************************************************************)
(* FontManager: the two directions of the alias table.                     *)
(***************************************************************************)
\* C25: after construction and after any sequence of add_font_mapping
\* calls the alias table is consistent in both directions: every label k
\* has reverse_mapping[font_mapping[k]] = k, and every canonical name v of
\* reverse_mapping has font_mapping[reverse_mapping[v]] = v.
C25_AliasTableBidirectional ==
    manager.initialized =>
        /\ \A k \in DOMAIN font_mapping :
              /\ font_mapping[k] \in DOMAIN reverse_mapping
              /\ reverse_mapping[font_mapping[k]] = k
        /\ \A v \in DOMAIN reverse_mapping :
              /\ reverse_mapping[v] \in DOMAIN font_mapping
              /\ font_mapping[reverse_mapping[v]] = v


(***************************************************************************)
(* add_font_mapping: the file and the table.                               *)
(***************************************************************************)
\* the step is an add_font_mapping call
AddStep == fontResult'.op = "add_font_mapping" /\ manager'.adds = manager.adds + 1

\* C26: add_font_mapping(c, e) returns True exactly when the mapping file
\* was written; the file then holds the whole alias table, c -> e
\* included, and a later load_font_mapping yields a table in which c maps
\* to e; when the write fails it returns False and the alias table in
\* memory is left as it was before the call.
C26_PersistenceRoundTrip ==
    [][AddStep =>
        LET c == fontResult'.args[1]
            e == fontResult'.args[2]
            ok == fontResult'.result.flag
        IN  /\ ok => /\ mapping_file' = DumpedFile(font_mapping', mapping_order')
                     /\ c \in DOMAIN mapping_file'.mapping
                     /\ mapping_file'.mapping[c] = e
                     /\ LoadFontMapping(mapping_file').font_mapping[c] = e
            /\ ~ok => /\ mapping_file' \in {mapping_file, UndecodableFile}
                      /\ font_mapping' = font_mapping
                      /\ reverse_mapping' = reverse_mapping]_vars


(***************************************************************************)
(* AIConnector: the two timeouts.                                          *)
(***************************************************************************)
\* C27: the test request of validate_config is sent with a timeout of
\* fewer than 10 seconds, send_request with a timeout of tens of seconds,
\* and the first is strictly shorter than the second.
C27_Timeouts ==
    Sent =>
        /\ callResult.op = "validate_config" => Post.timeout < 10
        /\ callResult.op = "send_request" => Post.timeout \in 20..99
        /\ TestRequestTimeout < RequestTimeout


\* C27 as amended: the test request of validate_config is sent with a
\* timeout of 10 seconds, which is not fewer than 10, send_request with a
\* timeout of 60 seconds, the first is strictly shorter than the second,
\* and no call gets a response that took longer than its timeout.
C27_TimeoutsTenAndSixty ==
    Sent =>
        /\ callResult.op = "validate_config" => Post.timeout = 10
        /\ callResult.op = "send_request" => Post.timeout = 60
        /\ TestRequestTimeout < RequestTimeout
        /\ Post.error = "" => Post.elapsed <= Post.timeout
\* C27 witness: validate_config timed out on an answer that send_request
\* would have waited for.
C27_Witness ==
    /\ callResult.op = "validate_config"
    /\ Post.error = "Timeout"
    /\ Post.timeout = TestRequestTimeout
    /\ Post.elapsed > TestRequestTimeout
    /\ Post.elapsed < RequestTimeout
    /\ ~callResult.ok


(***************************************************************************)
(* DocProcessor over its lifetime: what a failed call leaves behind.       *)
(***************************************************************************)
\* the step is an apply_formatting call that changed something
ApplyStep == applyResult' # applyResult \/ written' # written \/ output_file' # output_file

\* C28: with no document loaded, with instructions that are not a mapping
\* or with "elements" that is not a list, apply_formatting returns failure
\* before the backup is taken, creates and saves no document and leaves
\* output_file as it was.
C28_EarlyRejectionHasNoEffect ==
    [][(ApplyStep /\ RejectedEarly(request.instructions)) =>
            /\ ~applyResult'.ret
            /\ applyResult'.steps = <<>>
            /\ applyResult'.new_doc = NoDocument
            /\ written' = written
            /\ output_file' = output_file]_vars
\* C28 witness: a processor that has saved a document was given a rejected
\* instruction set.
C28_Witness ==
    /\ document # NoPath
    /\ RejectedEarly(request.instructions)
    /\ applyResult = ApplyRecord(FALSE, <<>>, NoDocument)
    /\ written # {}
    /\ output_file # NoPath


\* C29: get_output_file reports only documents that were written: after
\* any sequence of apply_formatting calls the path it returns is the
\* output path of the most recent call that returned success, None if none
\* did; a call that returns failure leaves output_file as it was.
C29_OutputFileOfLastSuccess ==
    /\ [](GetOutputFile # NoPath => \E f \in written : f.path = GetOutputFile)
    /\ [][ApplyStep =>
            IF applyResult'.ret
            THEN [path |-> output_file', doc |-> applyResult'.new_doc] \in written'
            ELSE output_file' = output_file]_vars


\* the step is a read_document call that changed something
ReadStep ==
    \/ readResult' # readResult
    \/ document' # document
    \/ input_file' # input_file
    \/ paragraphs_text' # paragraphs_text

\* C30: a failed read_document changes nothing: after any sequence of
\* read_document calls the loaded document, input_file and paragraphs_text
\* all belong to the most recent call that returned success, and
\* get_document_text returns [] if none did, so that a later
\* apply_formatting backs up and names its output after that same file.
C30_FailedReadChangesNothing ==
    /\ [](/\ input_file = document
          /\ GetDocumentText = IF document = NoPath THEN <<>> ELSE FileParagraphs(input_file))
    /\ [][ReadStep =>
            IF readResult'.ret
            THEN /\ document' = input_file'
                 /\ paragraphs_text' = FileParagraphs(input_file')
            ELSE UNCHANGED <<document, input_file, paragraphs_text>>]_vars

=============================================================================
